---- MODULE Spec2Model ----
(***************************************************************************)
(* Model of the scene-construction layer of ThreeJsStudio: the prepared    *)
(* construct (registries of lights, content groups and constructed scenes, *)
(* the render loop, viewport propagation), the Light wrapper, the          *)
(* capability decorators, the loadable scene units, material support and   *)
(* the mouse picking helper.                                               *)
(***************************************************************************)
EXTENDS Integers, Sequences, FiniteSets, TLC

VARIABLES
    \* ---- prepared construct: light and content registries (part_021)
    sceneChildren,      \* children of construct.scene (THREE.Scene), a set of nodes
    lights,             \* construct.lights : Map<string, Light>, in insertion order
    content,            \* construct.content : Map<string, THREE.Group>
    lightObj,           \* the Light objects: #light / #helper of each
    lastOp,             \* the registry operation that ran last (observation)
    lastSwitch,         \* the Light.switch call that ran last (observation)
    \* ---- prepared construct: constructed scenes and the render loop
    constructedScenes,  \* Map<string, preparedSceneReturn>, in insertion order
    insertionOrder,     \* observation: registered keys, oldest registration first
    lastAdded,          \* observation: per key, the scene of its latest add, if not deleted since
    rafQueue,           \* callbacks handed to requestAnimationFrame, one per loop
    cameraDefined,      \* construct.camera.camera !== undefined
    tickLog,            \* events of the tick that ran last
    tickSeen,           \* observation: callback and registry of that tick
    hookCalls,          \* updateCameraWindowSize hook invocations of the last call
    lastResize,         \* arguments of the last updateCameraWindowSize call
    \* ---- capability decorators (part_016, material.ts, loader.ts, part_014)
    objects,            \* the scene objects that exist: capabilities, contentGroup
    lastDecor,          \* the decorator call that ran last (observation)
    \* ---- loadable scene units (rotation-cube.ts, glb-scene.ts)
    unit,               \* per unit: load state, handle, pending load, group
    glbMaterial,        \* material of each mesh of the glb container
    setCalls,           \* number of setMaterial calls so far (names the clones)
    loadTrace,          \* observation: the load states each unit went through
    lastCall,           \* the unit operation that ran last (observation)
    \* ---- material support (material.ts) and effects (effects.ts)
    actualMaterial,     \* materialSupportContainer.actualMaterial
    contentGroup,       \* scene.contentGroup !== undefined
    groupMaterial,      \* material of each mesh of scene.contentGroup
    tweens,             \* material tweens started
    lastSet,            \* the setMaterial call that ran last (observation)
    \* ---- mouse support (part_016)
    storedMeshUUID,     \* uuid remembered by mouseSupport, '' at first
    meshMaterial,       \* material of each mesh of the root scene
    meshVisible,        \* visibility of each mesh of the root scene
    marks,              \* number of mark materials cloned so far
    lastMove,           \* the onMouseMove call that ran last (observation)
    \* ---- orbit controls of the prepared construct (part_021)
    orbit,              \* controls: limits, camera position, target, zoom, saved state
    orbitSnapshot,      \* observation: position, target, zoom at the last prepareOrbitControls
    lastOrbit,          \* the orbit operation that ran last (observation)
    \* ---- one Light and its configuration (light.ts)
    lightInst,          \* the Light: #config and the underlying THREE light
    given,              \* the config the Light was constructed from, by value
    lightSteps,         \* calls made on the Light since its construction
    lastLight,          \* the call on the Light that ran last (observation)
    \* ---- one Camera (part_019)
    cameraInst,         \* the Camera, if its constructor returned, and its THREE camera
    lastCamera,         \* the call on the Camera that ran last (observation)
    \* ---- addGlb and its loads (part_021, loader.ts)
    glbLoads,           \* the loads of addGlb whose promise is pending
    loaderCalls,        \* calls of glbLoader made by addGlb
    lastLoad,           \* the step of an addGlb load that ran last (observation)
    \* ---- the ground unit (ground.ts, part_008)
    ground,             \* which ground it is, its current grid, its plane
    groundScene,        \* the grids of the unit that are children of the scene
    lastGround,         \* the call on the ground unit that ran last (observation)
    \* ---- the card deck (card-deck.ts)
    deck,               \* the array of cards a caller holds
    shuffleAlgorithm,   \* the module's shuffleAlgorithm
    lastDeck,           \* the deck operation that ran last (observation)
    deckOps,            \* draws and shuffles of the deck since it was created
    riffle,             \* a call of riffleShuffle, iteration by iteration
    \* ---- glb scene units by asset path (glb-scene.ts)
    glbUnits,           \* the units glbScene(path) returned: container name, content
    glbRegistered,      \* the units among the constructed scenes, in tick order
    glbRoot,            \* the containers that are children of the root scene
    \* ---- the render loop with hooks that may throw (part_021)
    frames,             \* parity of the number of ticks run
    tickThrew           \* whether the tick that ran last ended in an exception

registryVars == <<sceneChildren, lights, content, lightObj, lastOp, lastSwitch>>
loopVars == <<constructedScenes, insertionOrder, lastAdded, rafQueue, cameraDefined,
              tickLog, tickSeen, hookCalls, lastResize>>
decorVars == <<objects, lastDecor>>
unitVars == <<unit, glbMaterial, setCalls, loadTrace, lastCall>>
materialVars == <<actualMaterial, contentGroup, groupMaterial, tweens, lastSet>>
mouseVars == <<storedMeshUUID, meshMaterial, meshVisible, marks, lastMove>>
orbitVars == <<orbit, orbitSnapshot, lastOrbit>>
lightConfigVars == <<lightInst, given, lightSteps, lastLight>>
cameraVars == <<cameraInst, lastCamera>>
loadVars == <<glbLoads, loaderCalls, lastLoad>>
groundVars == <<ground, groundScene, lastGround>>
deckVars == <<deck, shuffleAlgorithm, lastDeck, deckOps, riffle>>
attachVars == <<glbUnits, glbRegistered, glbRoot>>
frameVars == <<frames, tickThrew>>
moreVars == <<orbitVars, lightConfigVars, cameraVars, loadVars, groundVars,
              deckVars, attachVars, frameVars>>
constructVars == <<registryVars, loopVars, moreVars>>
sceneVars == <<decorVars, unitVars, materialVars, mouseVars, moreVars>>
baseVars == <<registryVars, loopVars, decorVars, unitVars, materialVars, mouseVars>>
vars == <<constructVars, sceneVars>>
exceptOrbit == <<baseVars, lightConfigVars, cameraVars, loadVars, groundVars,
                 deckVars, attachVars, frameVars>>
exceptLightConfig == <<baseVars, orbitVars, cameraVars, loadVars, groundVars,
                       deckVars, attachVars, frameVars>>
exceptCamera == <<baseVars, orbitVars, lightConfigVars, loadVars, groundVars,
                  deckVars, attachVars, frameVars>>
exceptLoad == <<lights, lightObj, lastSwitch, loopVars, decorVars, unitVars,
                materialVars, mouseVars, orbitVars, lightConfigVars, cameraVars,
                groundVars, deckVars, attachVars, frameVars>>
exceptGround == <<baseVars, orbitVars, lightConfigVars, cameraVars, loadVars,
                  deckVars, attachVars, frameVars>>
exceptDeck == <<baseVars, orbitVars, lightConfigVars, cameraVars, loadVars,
                groundVars, attachVars, frameVars>>
exceptAttach == <<baseVars, orbitVars, lightConfigVars, cameraVars, loadVars,
                  groundVars, deckVars, frameVars>>
exceptFrame == <<registryVars, decorVars, unitVars, materialVars, mouseVars,
                 orbitVars, lightConfigVars, cameraVars, loadVars, groundVars,
                 deckVars, attachVars>>

None == "none"

\* an absent scene-graph object (undefined)
NoNode == [kind |-> "none", id |-> "none", gen |-> 0]

(***************************************************************************)
(* JavaScript Map: iteration follows insertion order, set() on a present   *)
(* key keeps the key's position and replaces its value.                    *)
(***************************************************************************)
MapIndex(m, k) ==
    IF \E i \in 1..Len(m) : m[i].key = k
    THEN CHOOSE i \in 1..Len(m) : m[i].key = k
    ELSE 0

MapHas(m, k) == MapIndex(m, k) # 0

MapGet(m, k) == IF MapHas(m, k) THEN m[MapIndex(m, k)].val ELSE None

\* a set() that adds a second entry for a key already present
MapSetAppend(m, k, v) == Append(m, [key |-> k, val |-> v])

MapSet(m, k, v) ==
    IF MapHas(m, k)
    THEN [m EXCEPT ![MapIndex(m, k)] = [key |-> k, val |-> v]]
    ELSE Append(m, [key |-> k, val |-> v])

\* a buggy delete that drops the newest entry instead of k's
MapDeleteLast(m, k) ==
    IF MapHas(m, k) THEN SubSeq(m, 1, Len(m) - 1) ELSE m

MapDelete(m, k) ==
    IF MapHas(m, k)
    THEN [i \in 1..(Len(m) - 1) |->
             IF i < MapIndex(m, k) THEN m[i] ELSE m[i + 1]]
    ELSE m

MapValues(m) == [i \in 1..Len(m) |-> m[i].val]

(***************************************************************************)
(* Light (light.ts): createLight yields no object for lightTypeEnum.Unknown *)
(* and a helper exists for Directional, Point, Spot and Hemisphere only.    *)
(***************************************************************************)
LightTypes == {"Ambient", "Directional", "Hemisphere", "Point", "RectArea",
               "Spot", "Unknown"}

HelperTypes == {"Directional", "Point", "Spot", "Hemisphere"}

LightIds == {"standard", "l1", "l2"}

\* createLight(config): the underlying THREE light of Light l, or None
createLight(l, type, gen) ==
    IF type = "Unknown" THEN NoNode
    ELSE [kind |-> "light", id |-> l, gen |-> gen]

\* #createHelper(): the helper object of Light l, or None
createHelper(l, type, gen) ==
    IF type \in HelperTypes THEN [kind |-> "helper", id |-> l, gen |-> gen]
    ELSE NoNode

\* new Light(config): the light and its helper, where there is one, are visible
\* (THREE.Object3D.visible defaults to true); helperVisible is FALSE without helper
NewLight(type, gen) ==
    [type |-> type, gen |-> gen, visible |-> type # "Unknown",
     helperVisible |-> type \in HelperTypes]

getLight(l) == createLight(l, lightObj[l].type, lightObj[l].gen)

getHelper(l) == createHelper(l, lightObj[l].type, lightObj[l].gen)

MaxNewLights == 1

NoSwitch == [light |-> None, on |-> FALSE, onHelper |-> FALSE]

\* a switch that shows the helper whenever asked to, whatever the light does
HelperVisibilityIndependent(on, onHelper) == onHelper

\* this.#helper.visible = on ? onHelper : false
HelperVisibility(on, onHelper) == IF on THEN onHelper ELSE FALSE

\* Light.switch(on, onHelper)
switch(l, on, onHelper) ==
    /\ lightObj' =
          IF getLight(l) # NoNode
          THEN [lightObj EXCEPT
                  ![l].visible = on,
                  ![l].helperVisible =
                      IF getHelper(l) # NoNode
                      THEN HelperVisibility(on, onHelper)
                      ELSE lightObj[l].helperVisible]
          ELSE lightObj
    /\ lastSwitch' = [light |-> l, on |-> on, onHelper |-> onHelper]
    /\ UNCHANGED <<sceneChildren, lights, content, lastOp>>

\* Light.setNewLight(config): a new underlying light and a new helper
setNewLight(l, type) ==
    /\ lightObj[l].gen < MaxNewLights
    /\ lightObj' = [lightObj EXCEPT ![l] = NewLight(type, lightObj[l].gen + 1)]
    /\ lastSwitch' = IF lastSwitch.light = l THEN NoSwitch ELSE lastSwitch
    /\ UNCHANGED <<sceneChildren, lights, content, lastOp>>

(***************************************************************************)
(* Content groups handed to addContent.                                    *)
(***************************************************************************)
Keys == {"a", "b"}

Groups == {"g1", "g2"}

GroupNode(g) == [kind |-> "group", id |-> g, gen |-> 0]

\* THREE.Object3D.add / remove on the root scene
SceneAdd(children, node) == children \cup {node}

SceneRemove(children, node) == children \ {node}

(***************************************************************************)
(* prepareConstruct (part_021:245-608): lights and content                 *)
(***************************************************************************)
addLight(k, l) ==
    /\ lights' = MapSet(lights, k, l)
    /\ sceneChildren' = IF getLight(l) # NoNode
                        THEN SceneAdd(sceneChildren, getLight(l))
                        ELSE sceneChildren
    /\ lastOp' = [op |-> "addLight", key |-> k, node |-> getLight(l)]
    /\ UNCHANGED <<content, lightObj, lastSwitch>>

deleteLight(k) ==
    LET light == MapGet(lights, k) IN
    /\ IF light # None /\ getLight(light) # NoNode
       THEN /\ lights' = MapDelete(lights, k)
            /\ sceneChildren' = SceneRemove(sceneChildren, getLight(light))
       ELSE UNCHANGED <<lights, sceneChildren>>
    /\ lastOp' = [op |-> "deleteLight", key |-> k,
                  node |-> IF light # None THEN getLight(light) ELSE NoNode]
    /\ UNCHANGED <<content, lightObj, lastSwitch>>

addContent(k, g) ==
    /\ content' = MapSet(content, k, g)
    /\ sceneChildren' = SceneAdd(sceneChildren, GroupNode(g))
    /\ lastOp' = [op |-> "addContent", key |-> k, node |-> GroupNode(g)]
    /\ UNCHANGED <<lights, lightObj, lastSwitch>>

deleteContent(k) ==
    LET c == MapGet(content, k) IN
    /\ IF c # None
       THEN /\ content' = MapDelete(content, k)
            /\ sceneChildren' = SceneRemove(sceneChildren, GroupNode(c))
       ELSE UNCHANGED <<content, sceneChildren>>
    /\ lastOp' = [op |-> "deleteContent", key |-> k,
                  node |-> IF c # None THEN GroupNode(c) ELSE NoNode]
    /\ UNCHANGED <<lights, lightObj, lastSwitch>>

\* construct(): one Ambient light under 'standard'; prepareConstruct attaches
\* every registered light that has an underlying object.  l1 and l2 are Light
\* objects the caller built: a Point light and one of type Unknown.
InitRegistry ==
    /\ lightObj = [l \in LightIds |->
                     IF l = "standard" THEN NewLight("Ambient", 0)
                     ELSE IF l = "l1" THEN NewLight("Point", 0)
                     ELSE NewLight("Unknown", 0)]
    /\ lights = <<[key |-> "standard", val |-> "standard"]>>
    /\ content = <<>>
    /\ sceneChildren = {createLight("standard", "Ambient", 0)}
    /\ lastOp = [op |-> "prepareConstruct", key |-> None, node |-> NoNode]
    /\ lastSwitch = NoSwitch

\* Light objects of every type, as new Light(config) leaves them
InitLight ==
    /\ \E t1, t2 \in LightTypes :
          lightObj = [l \in LightIds |->
                        IF l = "standard" THEN NewLight("Ambient", 0)
                        ELSE IF l = "l1" THEN NewLight(t1, 0)
                        ELSE NewLight(t2, 0)]
    /\ lights = <<[key |-> "standard", val |-> "standard"]>>
    /\ content = <<>>
    /\ sceneChildren = {createLight("standard", "Ambient", 0)}
    /\ lastOp = [op |-> "prepareConstruct", key |-> None, node |-> NoNode]
    /\ lastSwitch = NoSwitch

(***************************************************************************)
(* prepareConstruct (part_021:245-608): constructed scenes, render loop,   *)
(* viewport propagation                                                    *)
(***************************************************************************)
Scenes == {"s1", "s2"}

Callbacks == {"cb1", "cb2"}

Sizes == {<<800, 600>>, <<1920, 1080>>}

MaxAnimateCalls == 2

\* the keys of sequence q without k, order kept
Without(q, k) == SelectSeq(q, LAMBDA x : x # k)

addConstructedScene(k, s) ==
    /\ constructedScenes' = MapSet(constructedScenes, k, s)
    /\ insertionOrder' = IF \E i \in 1..Len(insertionOrder) : insertionOrder[i] = k
                         THEN insertionOrder
                         ELSE Append(insertionOrder, k)
    /\ lastAdded' = [lastAdded EXCEPT ![k] = s]
    /\ UNCHANGED <<rafQueue, cameraDefined, tickLog, tickSeen, hookCalls, lastResize>>

getConstructedScene(k) == MapGet(constructedScenes, k)

deleteConstructedScene(k) ==
    /\ constructedScenes' = MapDelete(constructedScenes, k)
    /\ insertionOrder' = Without(insertionOrder, k)
    /\ lastAdded' = [lastAdded EXCEPT ![k] = None]
    /\ UNCHANGED <<rafQueue, cameraDefined, tickLog, tickSeen, hookCalls, lastResize>>

\* the tick of the first prepareConstruct (part_021:61-70): callback before render
TickCallbackFirst(pfkt) ==
    IF cameraDefined
    THEN <<[ev |-> "callback", arg |-> pfkt]>>
         \o <<[ev |-> "render", arg |-> "root"]>>
         \o [i \in 1..Len(constructedScenes) |->
                [ev |-> "hook", arg |-> MapValues(constructedScenes)[i]]]
    ELSE <<>>

\* one run of the body of anim() after its requestAnimationFrame call: the events
\* of the tick, in order
Tick(pfkt) ==
    IF cameraDefined
    THEN <<[ev |-> "render", arg |-> "root"]>>
         \o [i \in 1..Len(constructedScenes) |->
                [ev |-> "hook", arg |-> MapValues(constructedScenes)[i]]]
         \o <<[ev |-> "callback", arg |-> pfkt]>>
    ELSE <<>>

\* what a tick with callback pfkt had before it: the camera and the registry
Seen(pfkt) ==
    [pfkt |-> pfkt, camera |-> cameraDefined, order |-> insertionOrder,
     added |-> lastAdded]

\* animate(pfkt): anim() runs at once: it requests the next frame, then ticks
animate(pfkt) ==
    /\ Len(rafQueue) < MaxAnimateCalls
    /\ rafQueue' = Append(rafQueue, pfkt)
    /\ tickLog' = Tick(pfkt)
    /\ tickSeen' = Seen(pfkt)
    /\ UNCHANGED <<constructedScenes, insertionOrder, lastAdded, cameraDefined,
                   hookCalls, lastResize>>

\* the browser runs the oldest requested anim(): it requests itself again, ticks
AnimationFrame ==
    /\ rafQueue # <<>>
    /\ rafQueue' = Append(Tail(rafQueue), Head(rafQueue))
    /\ tickLog' = Tick(Head(rafQueue))
    /\ tickSeen' = Seen(Head(rafQueue))
    /\ UNCHANGED <<constructedScenes, insertionOrder, lastAdded, cameraDefined,
                   hookCalls, lastResize>>

\* Camera's public setter: construct.camera.camera = value
setCamera(defined) ==
    /\ cameraDefined' = defined
    /\ UNCHANGED <<constructedScenes, insertionOrder, lastAdded, rafQueue,
                   tickLog, tickSeen, hookCalls, lastResize>>

\* a buggy loop that starts at the second registered scene
SceneHookCallsSkipFirst(size) ==
    [i \in 1..(Len(constructedScenes) - 1) |->
        [scene |-> MapValues(constructedScenes)[i + 1], size |-> size]]

\* for (const l of constructedScenes.values()) l.updateCameraWindowSize(w, h)
SceneHookCalls(size) ==
    [i \in 1..Len(constructedScenes) |->
        [scene |-> MapValues(constructedScenes)[i], size |-> size]]

updateCameraWindowSize(size) ==
    /\ hookCalls' = SceneHookCalls(size)
    /\ lastResize' = [size |-> size, added |-> lastAdded]
    /\ UNCHANGED <<constructedScenes, insertionOrder, lastAdded, rafQueue,
                   cameraDefined, tickLog, tickSeen>>

NoResize == [size |-> <<0, 0>>, added |-> [k \in Keys |-> None]]

NoTick == [pfkt |-> None, camera |-> FALSE, order |-> <<>>,
           added |-> [k \in Keys |-> None]]

InitLoop ==
    /\ constructedScenes = <<>>
    /\ insertionOrder = <<>>
    /\ lastAdded = [k \in Keys |-> None]
    /\ rafQueue = <<>>
    /\ cameraDefined = TRUE
    /\ tickLog = <<>>
    /\ tickSeen = NoTick
    /\ hookCalls = <<>>
    /\ lastResize = NoResize

LightKeys == {"standard", "a"}

AddLight ==
    /\ \E k \in LightKeys, l \in LightIds : addLight(k, l)
    /\ UNCHANGED <<loopVars, sceneVars>>

DeleteLight ==
    /\ \E k \in LightKeys : deleteLight(k)
    /\ UNCHANGED <<loopVars, sceneVars>>

AddContent ==
    /\ \E k \in Keys, g \in Groups : addContent(k, g)
    /\ UNCHANGED <<loopVars, sceneVars>>

DeleteContent ==
    /\ \E k \in Keys : deleteContent(k)
    /\ UNCHANGED <<loopVars, sceneVars>>

Next == AddLight \/ DeleteLight \/ AddContent \/ DeleteContent

AddConstructedScene ==
    /\ \E k \in Keys, s \in Scenes : addConstructedScene(k, s)
    /\ UNCHANGED <<registryVars, sceneVars>>

DeleteConstructedScene ==
    /\ \E k \in Keys : deleteConstructedScene(k)
    /\ UNCHANGED <<registryVars, sceneVars>>

Animate ==
    /\ \E pfkt \in Callbacks : animate(pfkt)
    /\ UNCHANGED <<registryVars, sceneVars>>

RunAnimationFrame ==
    /\ AnimationFrame
    /\ UNCHANGED <<registryVars, sceneVars>>

SetCamera ==
    /\ \E d \in BOOLEAN : setCamera(d)
    /\ UNCHANGED <<registryVars, sceneVars>>

UpdateCameraWindowSize ==
    /\ \E size \in Sizes : updateCameraWindowSize(size)
    /\ UNCHANGED <<registryVars, sceneVars>>

NextLoop ==
    \/ AddConstructedScene
    \/ DeleteConstructedScene
    \/ Animate
    \/ RunAnimationFrame
    \/ SetCamera

\* the three registries of the construct together
NextRegistries ==
    \/ AddLight
    \/ AddContent
    \/ DeleteContent
    \/ AddConstructedScene

NextResize ==
    \/ AddConstructedScene
    \/ DeleteConstructedScene
    \/ UpdateCameraWindowSize

Switch ==
    /\ \E l \in {"l1", "l2"}, on \in BOOLEAN, onHelper \in BOOLEAN :
          switch(l, on, onHelper)
    /\ UNCHANGED <<loopVars, sceneVars>>

SetNewLight ==
    /\ \E l \in {"l1", "l2"}, type \in LightTypes : setNewLight(l, type)
    /\ UNCHANGED <<loopVars, sceneVars>>

NextLight == Switch \/ SetNewLight

\* the life of the caller's light l1 in the construct: registered, switched,
\* given a new underlying light, deleted
SwitchRegistered ==
    /\ \E on \in BOOLEAN, onHelper \in BOOLEAN : switch("l1", on, onHelper)
    /\ UNCHANGED <<loopVars, sceneVars>>

SetNewLightRegistered ==
    /\ \E type \in {"Directional", "Unknown"} : setNewLight("l1", type)
    /\ UNCHANGED <<loopVars, sceneVars>>

NextLightLife ==
    \/ AddLight
    \/ DeleteLight
    \/ SwitchRegistered
    \/ SetNewLightRegistered

(***************************************************************************)
(* Capability decorators: a scene object carries a capability when the     *)
(* capability's container property is defined on it; a decorator returns   *)
(* its argument or a new object { ...scene, ...capability }.               *)
(***************************************************************************)
Capabilities == {"mouse", "material", "analyse", "effect"}

MaxObjects == 4

NoDecor == [cap |-> None, arg |-> 0, construct |-> FALSE, had |-> FALSE,
            result |-> 0, before |-> <<>>]

\* a capability check that never finds the capability
hasSupportNever(o) == FALSE

\* (obj as object).container !== undefined
hasMouseSupport(o) == "mouse" \in objects[o].caps

\* (obj as object).materialSupportContainer !== undefined
hasMaterialSupport(o) == "material" \in objects[o].caps

\* (obj as object).analyse !== undefined
hasAnalyseSupport(o) == "analyse" \in objects[o].caps

\* (obj as object).effectSupportContainer !== undefined
hasEffectsSupport(o) == "effect" \in objects[o].caps

\* return scene: the argument itself, no object is created
ReturnScene(o, cap, construct) ==
    /\ objects' = objects
    /\ lastDecor' = [cap |-> cap, arg |-> o, construct |-> construct,
                     had |-> cap \in objects[o].caps, result |-> o,
                     before |-> objects]

\* return { ...scene, ...capability }: a new object with the properties of the
\* argument and the capability's container
ReturnSpread(o, cap, construct) ==
    /\ Len(objects) < MaxObjects
    /\ objects' = Append(objects, [caps |-> objects[o].caps \cup {cap},
                                   contentGroup |-> objects[o].contentGroup])
    /\ lastDecor' = [cap |-> cap, arg |-> o, construct |-> construct,
                     had |-> cap \in objects[o].caps, result |-> Len(objects) + 1,
                     before |-> objects]

addMouseSupport(o, construct) ==
    IF hasMouseSupport(o) THEN ReturnScene(o, "mouse", construct)
    ELSE IF ~construct THEN ReturnScene(o, "mouse", construct)
    ELSE ReturnSpread(o, "mouse", construct)

addMaterialSupport(o, construct) ==
    IF hasMaterialSupport(o) THEN ReturnScene(o, "material", construct)
    ELSE IF ~construct THEN ReturnScene(o, "material", construct)
    ELSE ReturnSpread(o, "material", construct)

addAnalyseSupport(o, construct) ==
    IF hasAnalyseSupport(o) THEN ReturnScene(o, "analyse", construct)
    ELSE IF construct /\ objects[o].contentGroup
         THEN ReturnSpread(o, "analyse", construct)
         ELSE ReturnScene(o, "analyse", construct)

addEffectSupport(o, construct) ==
    IF hasEffectsSupport(o) THEN ReturnScene(o, "effect", construct)
    ELSE IF ~construct THEN ReturnScene(o, "effect", construct)
    ELSE ReturnSpread(o, "effect", construct)

\* two undecorated scenes, one with a contentGroup and one without
InitDecor ==
    /\ objects = <<[caps |-> {}, contentGroup |-> TRUE],
                   [caps |-> {}, contentGroup |-> FALSE]>>
    /\ lastDecor = NoDecor

AddMouseSupport ==
    /\ \E o \in 1..Len(objects), c \in BOOLEAN : addMouseSupport(o, c)
    /\ UNCHANGED <<constructVars, unitVars, materialVars, mouseVars>>

AddMaterialSupport ==
    /\ \E o \in 1..Len(objects), c \in BOOLEAN : addMaterialSupport(o, c)
    /\ UNCHANGED <<constructVars, unitVars, materialVars, mouseVars>>

AddAnalyseSupport ==
    /\ \E o \in 1..Len(objects), c \in BOOLEAN : addAnalyseSupport(o, c)
    /\ UNCHANGED <<constructVars, unitVars, materialVars, mouseVars>>

AddEffectSupport ==
    /\ \E o \in 1..Len(objects), c \in BOOLEAN : addEffectSupport(o, c)
    /\ UNCHANGED <<constructVars, unitVars, materialVars, mouseVars>>

NextDecor ==
    \/ AddMouseSupport
    \/ AddMaterialSupport
    \/ AddAnalyseSupport
    \/ AddEffectSupport

(***************************************************************************)
(* Loadable scene units.  constructRotationCube returns its handle at once *)
(* and loads in the background; glbScene awaits the load and returns its   *)
(* handle when the load has resolved, with or without content.  The load   *)
(* state of a unit is Unloaded before its factory runs, Loading from the   *)
(* start of the load, Ready once the loaded content is in its group.       *)
(***************************************************************************)
UnitIds == {"cube", "glb"}

UnitOps == {"visible", "setMaterial", "animate", "updateCameraWindowSize",
            "reCalculateDimensions"}

\* the properties of the object the factory returns
UnitExposes(u) ==
    IF u = "cube"
    THEN {"animate", "visible", "updateCameraWindowSize", "setMaterial"}
    ELSE {"animate", "visible", "updateCameraWindowSize", "setMaterial",
          "reCalculateDimensions"}

\* how glbLoader settles: a GLTF with a scene, a value without one, a rejection
LoadOutcomes == {"content", "empty", "error"}

Meshes == {"A", "B"}

Materials == {"m1", "m2"}

MaxSetMaterialCalls == 2

\* a material object: what it is a clone of, which clone, made for which mesh,
\* whether its colour was brightened; NoMaterial is undefined
NoMaterial == [of |-> "none", n |-> 0, mesh |-> "none", bright |-> FALSE]

\* the material a mesh of the loaded asset comes with
OwnMaterial(mesh) == [of |-> "own", n |-> 0, mesh |-> mesh, bright |-> FALSE]

\* material.clone() made by the n-th setMaterial call for mesh (or for the scene)
Clone(m, n, mesh) == [of |-> m, n |-> n, mesh |-> mesh, bright |-> FALSE]

NoCall == [unit |-> None, op |-> None, arg |-> None, before |-> None,
           accepted |-> FALSE]

NewUnit == [state |-> "Unloaded", pending |-> FALSE, handle |-> FALSE,
            visible |-> TRUE, attached |-> FALSE, viewport |-> <<0, 0>>]

\* a load that makes the unit Ready however it resolves
LoadedStateAnyResolve(state, outcome) ==
    IF outcome # "error" THEN "Ready" ELSE state

\* if (gltf?.scene) { ...the group receives gltf.scene... }
LoadedState(state, outcome) ==
    IF outcome = "content" THEN "Ready" ELSE state

Entered(u, state) ==
    IF state = unit[u].state THEN loadTrace
    ELSE [loadTrace EXCEPT ![u] = Append(@, state)]

\* constructRotationCube(): glb() starts the load, the handle is returned
constructRotationCube ==
    /\ unit["cube"].state = "Unloaded"
    /\ unit' = [unit EXCEPT !["cube"].state = "Loading",
                            !["cube"].pending = TRUE,
                            !["cube"].handle = TRUE]
    /\ loadTrace' = Entered("cube", "Loading")
    /\ lastCall' = [unit |-> "cube", op |-> "factory", arg |-> None,
                    before |-> unit["cube"].state, accepted |-> TRUE]
    /\ UNCHANGED <<glbMaterial, setCalls>>

\* glbScene(path) up to its await glb(): the load is started, no handle yet
glbScene ==
    /\ unit["glb"].state = "Unloaded"
    /\ unit' = [unit EXCEPT !["glb"].state = "Loading",
                            !["glb"].pending = TRUE]
    /\ loadTrace' = Entered("glb", "Loading")
    /\ lastCall' = [unit |-> "glb", op |-> "factory", arg |-> None,
                    before |-> unit["glb"].state, accepted |-> TRUE]
    /\ UNCHANGED <<glbMaterial, setCalls>>

\* a then-callback that shows the group when the content has come
cubeLoadSettledShowing(outcome) ==
    /\ unit["cube"].pending
    /\ unit' = [unit EXCEPT
                  !["cube"].pending = FALSE,
                  !["cube"].state = LoadedState(unit["cube"].state, outcome),
                  !["cube"].attached = (outcome = "content"),
                  !["cube"].visible = (outcome = "content") \/ unit["cube"].visible]
    /\ loadTrace' = Entered("cube", LoadedState(unit["cube"].state, outcome))
    /\ lastCall' = [unit |-> "cube", op |-> "settled", arg |-> outcome,
                    before |-> unit["cube"].state, accepted |-> TRUE]
    /\ UNCHANGED <<glbMaterial, setCalls>>

\* the then-callback of the rotation cube's load; a rejection is dropped (void)
cubeLoadSettled(outcome) ==
    /\ unit["cube"].pending
    /\ unit' = [unit EXCEPT
                  !["cube"].pending = FALSE,
                  !["cube"].state = LoadedState(unit["cube"].state, outcome),
                  !["cube"].attached = (outcome = "content")]
    /\ loadTrace' = Entered("cube", LoadedState(unit["cube"].state, outcome))
    /\ lastCall' = [unit |-> "cube", op |-> "settled", arg |-> outcome,
                    before |-> unit["cube"].state, accepted |-> TRUE]
    /\ UNCHANGED <<glbMaterial, setCalls>>

\* the then-callback of the glb scene's load and the rest of glbScene: the handle
\* is returned unless the load rejected
glbLoadSettled(outcome) ==
    /\ unit["glb"].pending
    /\ unit' = [unit EXCEPT
                  !["glb"].pending = FALSE,
                  !["glb"].state = LoadedState(unit["glb"].state, outcome),
                  !["glb"].handle = (outcome # "error")]
    /\ glbMaterial' = IF outcome = "content"
                      THEN [mesh \in Meshes |-> OwnMaterial(mesh)]
                      ELSE glbMaterial
    /\ loadTrace' = Entered("glb", LoadedState(unit["glb"].state, outcome))
    /\ lastCall' = [unit |-> "glb", op |-> "settled", arg |-> outcome,
                    before |-> unit["glb"].state, accepted |-> TRUE]
    /\ UNCHANGED setCalls

\* the setMaterial call that ran last: which implementation, the material given,
\* whether a current material was stored before, the materials before the call
SetRecord(impl, m, first, current, meshes) ==
    [impl |-> impl, material |-> m, first |-> first, currentBefore |-> current,
     meshesBefore |-> meshes]

NoSet == SetRecord(None, None, FALSE, NoMaterial, [mesh \in Meshes |-> NoMaterial])

Called(u, op) ==
    [unit |-> u, op |-> op, arg |-> None, before |-> unit[u].state,
     accepted |-> op \in UnitExposes(u)]

\* visible(vis): the unit's group is shown or hidden
unitVisible(u, vis) ==
    /\ unit' = [unit EXCEPT ![u].visible = vis]
    /\ lastCall' = Called(u, "visible")
    /\ UNCHANGED <<glbMaterial, setCalls, loadTrace, lastSet>>

\* animate(renderer, scene, camera): the glb scene adds its container to the root
\* scene unless an object of the container's name is found there; the root scene
\* itself has the empty name an unloaded container has.  The rotation cube turns
\* its group and renders its own scene.
unitAnimate(u) ==
    /\ unit' = IF u = "glb" /\ unit[u].state = "Ready"
               THEN [unit EXCEPT ![u].attached = TRUE]
               ELSE unit
    /\ lastCall' = Called(u, "animate")
    /\ UNCHANGED <<glbMaterial, setCalls, loadTrace, lastSet>>

\* updateCameraWindowSize(w, h): the rotation cube sets the bounds of its camera,
\* the glb scene does nothing
unitUpdateCameraWindowSize(u, size) ==
    /\ unit' = IF u = "cube" THEN [unit EXCEPT ![u].viewport = size] ELSE unit
    /\ lastCall' = Called(u, "updateCameraWindowSize")
    /\ UNCHANGED <<glbMaterial, setCalls, loadTrace, lastSet>>

\* setMaterial(material): the glb scene gives every mesh of its container a clone
\* of its own, on every call; the rotation cube logs
unitSetMaterial(u, m) ==
    /\ IF u = "glb" /\ unit[u].state = "Ready"
       THEN /\ setCalls < MaxSetMaterialCalls
            /\ glbMaterial' = [mesh \in Meshes |-> Clone(m, setCalls + 1, mesh)]
            /\ setCalls' = setCalls + 1
       ELSE UNCHANGED <<glbMaterial, setCalls>>
    /\ lastCall' = Called(u, "setMaterial")
    /\ lastSet' = SetRecord(u, m, \A mesh \in Meshes : glbMaterial[mesh].n = 0,
                          NoMaterial, glbMaterial)
    /\ UNCHANGED <<unit, loadTrace>>

\* reCalculateDimensions(dimensions): the glb scene logs; the object the rotation
\* cube returns has no such property, the call throws a TypeError
unitReCalculateDimensions(u) ==
    /\ lastCall' = Called(u, "reCalculateDimensions")
    /\ UNCHANGED <<unit, glbMaterial, setCalls, loadTrace, lastSet>>

InitUnit ==
    /\ unit = [u \in UnitIds |-> NewUnit]
    /\ glbMaterial = [mesh \in Meshes |-> NoMaterial]
    /\ setCalls = 0
    /\ loadTrace = [u \in UnitIds |-> <<"Unloaded">>]
    /\ lastCall = NoCall

\* both units after their loads resolved with content
InitUnitReady ==
    /\ unit = [u \in UnitIds |->
                 [NewUnit EXCEPT !.state = "Ready", !.handle = TRUE,
                                 !.attached = (u = "cube")]]
    /\ glbMaterial = [mesh \in Meshes |-> OwnMaterial(mesh)]
    /\ setCalls = 0
    /\ loadTrace = [u \in UnitIds |-> <<"Unloaded", "Loading", "Ready">>]
    /\ lastCall = NoCall

restOfUnits == <<constructVars, decorVars, actualMaterial, contentGroup,
                 groupMaterial, tweens, mouseVars>>

ConstructRotationCube ==
    /\ constructRotationCube
    /\ UNCHANGED <<restOfUnits, lastSet>>

GlbScene ==
    /\ glbScene
    /\ UNCHANGED <<restOfUnits, lastSet>>

CubeLoadSettled ==
    /\ \E outcome \in LoadOutcomes : cubeLoadSettled(outcome)
    /\ UNCHANGED <<restOfUnits, lastSet>>

GlbLoadSettled ==
    /\ \E outcome \in LoadOutcomes : glbLoadSettled(outcome)
    /\ UNCHANGED <<restOfUnits, lastSet>>

\* the callers of a unit hold its handle
UnitVisible ==
    /\ \E u \in UnitIds, vis \in BOOLEAN : unit[u].handle /\ unitVisible(u, vis)
    /\ UNCHANGED restOfUnits

UnitAnimate ==
    /\ \E u \in UnitIds : unit[u].handle /\ unitAnimate(u)
    /\ UNCHANGED restOfUnits

UnitUpdateCameraWindowSize ==
    /\ \E u \in UnitIds, size \in Sizes :
          unit[u].handle /\ unitUpdateCameraWindowSize(u, size)
    /\ UNCHANGED restOfUnits

UnitSetMaterial ==
    /\ \E u \in UnitIds, m \in Materials : unit[u].handle /\ unitSetMaterial(u, m)
    /\ UNCHANGED restOfUnits

UnitReCalculateDimensions ==
    /\ \E u \in UnitIds : unit[u].handle /\ unitReCalculateDimensions(u)
    /\ UNCHANGED restOfUnits

NextUnit ==
    \/ ConstructRotationCube
    \/ GlbScene
    \/ CubeLoadSettled
    \/ GlbLoadSettled
    \/ UnitVisible
    \/ UnitAnimate
    \/ UnitUpdateCameraWindowSize
    \/ UnitSetMaterial
    \/ UnitReCalculateDimensions

(***************************************************************************)
(* Material support (material.ts) of a decorated scene and the material    *)
(* tween of the effects helper (effects.ts)                                *)
(***************************************************************************)
\* materialSupportContainer.setMaterial(material)
setMaterial(m) ==
    /\ IF actualMaterial = NoMaterial
       THEN /\ setCalls < MaxSetMaterialCalls
            /\ actualMaterial' = Clone(m, setCalls + 1, "none")
            /\ groupMaterial' =
                  IF contentGroup
                  THEN [mesh \in Meshes |-> Clone(m, setCalls + 1, "none")]
                  ELSE groupMaterial
            /\ setCalls' = setCalls + 1
       ELSE UNCHANGED <<actualMaterial, groupMaterial, setCalls>>
    /\ lastSet' = SetRecord("materialSupport", m, actualMaterial = NoMaterial,
                            actualMaterial, groupMaterial)
    /\ UNCHANGED <<contentGroup, tweens>>

\* materialSupportContainer.changeMaterial(material): logs
changeMaterial(m) ==
    /\ lastSet' = SetRecord("changeMaterial", m, actualMaterial = NoMaterial,
                            actualMaterial, groupMaterial)
    /\ UNCHANGED <<actualMaterial, contentGroup, groupMaterial, tweens, setCalls>>

\* the material object the caller hands over as m
Given(m) == [of |-> m, n |-> 0, mesh |-> "none", bright |-> FALSE]

\* effects().tweenChangeMaterial(material, destMaterial, duration)
tweenChangeMaterial(material, destMaterial) ==
    /\ tweens' = IF material # NoMaterial /\ destMaterial # NoMaterial
                 THEN tweens \cup {[from |-> material, to |-> destMaterial]}
                 ELSE tweens
    /\ lastSet' = SetRecord("tweenChangeMaterial", destMaterial.of,
                            actualMaterial = NoMaterial, actualMaterial,
                            groupMaterial)
    /\ UNCHANGED <<actualMaterial, contentGroup, groupMaterial, setCalls>>

\* a scene with or without a contentGroup, its meshes with their own materials
InitMaterialWith(group) ==
    /\ actualMaterial = NoMaterial
    /\ contentGroup = group
    /\ groupMaterial = [mesh \in Meshes |->
                          IF contentGroup THEN OwnMaterial(mesh) ELSE NoMaterial]
    /\ tweens = {}
    /\ lastSet = NoSet

InitMaterial == InitMaterialWith(TRUE)

restOfMaterial == <<constructVars, decorVars, unit, glbMaterial, loadTrace,
                    lastCall, mouseVars>>

SetMaterial ==
    /\ \E m \in Materials : setMaterial(m)
    /\ UNCHANGED restOfMaterial

ChangeMaterial ==
    /\ \E m \in Materials : changeMaterial(m)
    /\ UNCHANGED restOfMaterial

TweenChangeMaterial ==
    /\ \E material \in {NoMaterial, actualMaterial},
          destMaterial \in {NoMaterial} \cup {Given(m) : m \in Materials} :
          tweenChangeMaterial(material, destMaterial)
    /\ UNCHANGED restOfMaterial

GlbSetMaterial ==
    /\ \E m \in Materials : unit["glb"].handle /\ unitSetMaterial("glb", m)
    /\ UNCHANGED restOfUnits

\* materialSupportContainer.setMaterial of the decorated rotation cube, whose
\* handle carries no contentGroup (rotation-cube.ts:189-195)
SupportSetMaterial ==
    /\ unit["cube"].handle
    /\ \E m \in Materials : setMaterial(m)
    /\ UNCHANGED restOfMaterial

\* setMaterial calls and the loads of the units they are made on
NextMaterialLoad ==
    \/ ConstructRotationCube
    \/ CubeLoadSettled
    \/ GlbScene
    \/ GlbLoadSettled
    \/ SupportSetMaterial
    \/ UnitSetMaterial

NextMaterial ==
    \/ SetMaterial
    \/ ChangeMaterial
    \/ TweenChangeMaterial
    \/ GlbSetMaterial

(***************************************************************************)
(* Mouse support (part_016): onMouseMove(event, scene).  The event is      *)
(* given by what the pointer ray intersects in the root scene, nearest     *)
(* first; an object is listed once for every face the ray crosses.         *)
(***************************************************************************)
\* a non-mesh object of the root scene: a line of a helper
HitObjects == Meshes \cup {"L"}

MaxHits == 2

MaxMarks == 2

RECURSIVE Hits(_)
Hits(n) ==
    IF n = 0 THEN {<<>>}
    ELSE Hits(n - 1) \cup
         {Append(h, o) : h \in {x \in Hits(n - 1) : Len(x) = n - 1}, o \in HitObjects}

\* the scene handed to onMouseMove: whether it has setMaterial, its actualMaterial
SceneShapes ==
    {[setMaterial |-> sm, actualMaterial |-> am] :
        sm \in BOOLEAN, am \in {NoMaterial, Given("m1")}}

\* obj.setMaterial !== undefined
ishandleMaterialSupport(scene) == scene.setMaterial

\* the first loop over intersects: whether it returned, and storedMeshUUID after it
RECURSIVE ScanIntersects(_, _, _)
ScanIntersects(intersects, i, stored) ==
    IF i > Len(intersects) THEN [returned |-> FALSE, stored |-> stored]
    ELSE IF intersects[i] \in Meshes
         THEN IF intersects[i] = stored
              THEN [returned |-> TRUE, stored |-> stored]
              ELSE ScanIntersects(intersects, i + 1, intersects[i])
         ELSE ScanIntersects(intersects, i + 1, stored)

\* the indices of the visible meshes among intersects
VisibleMeshHits(intersects) ==
    {i \in 1..Len(intersects) :
        intersects[i] \in Meshes /\ meshVisible[intersects[i]]}

\* the first visible mesh among intersects, None if there is none
FirstVisibleMesh(intersects) ==
    IF VisibleMeshHits(intersects) = {} THEN None
    ELSE intersects[CHOOSE i \in VisibleMeshHits(intersects) :
                        \A j \in VisibleMeshHits(intersects) : i <= j]

\* resetMaterial.clone() with color.addScalar(1)
MarkMaterial(resetMaterial, n) ==
    [of |-> resetMaterial.of, n |-> n, mesh |-> "none", bright |-> TRUE]

Moved(intersects, scene) ==
    [intersects |-> intersects, scene |-> scene, stored |-> storedMeshUUID,
     camera |-> cameraDefined, ran |-> TRUE]

NoMove == [intersects |-> <<>>,
           scene |-> [setMaterial |-> FALSE, actualMaterial |-> NoMaterial],
           stored |-> "", camera |-> FALSE, ran |-> FALSE]

onMouseMove(intersects, scene) ==
    LET scan == ScanIntersects(intersects, 1, storedMeshUUID)
        resetMaterial == scene.actualMaterial
        marked == IF intersects # <<>> /\ resetMaterial # NoMaterial
                  THEN FirstVisibleMesh(intersects)
                  ELSE None
    IN
    /\ lastMove' = Moved(intersects, scene)
    /\ IF ~cameraDefined
       THEN UNCHANGED <<storedMeshUUID, meshMaterial, marks>>
       ELSE IF intersects # <<>> /\ scan.returned
       THEN /\ storedMeshUUID' = scan.stored
            /\ UNCHANGED <<meshMaterial, marks>>
       ELSE IF intersects = <<>> /\ storedMeshUUID = ""
       THEN UNCHANGED <<storedMeshUUID, meshMaterial, marks>>
       ELSE IF ~ishandleMaterialSupport(scene)
       THEN /\ storedMeshUUID' = scan.stored
            /\ UNCHANGED <<meshMaterial, marks>>
       ELSE /\ storedMeshUUID' = ""
            /\ marked # None => marks < MaxMarks
            /\ meshMaterial' =
                  [mesh \in Meshes |->
                      IF mesh = marked THEN MarkMaterial(resetMaterial, marks + 1)
                      ELSE IF resetMaterial # NoMaterial THEN resetMaterial
                      ELSE meshMaterial[mesh]]
            /\ marks' = IF marked # None THEN marks + 1 ELSE marks
    /\ UNCHANGED meshVisible

\* the meshes of the root scene with their own materials, visible or not
InitMouseWith(vis) ==
    /\ storedMeshUUID = ""
    /\ meshMaterial = [mesh \in Meshes |-> OwnMaterial(mesh)]
    /\ meshVisible = vis
    /\ marks = 0
    /\ lastMove = NoMove

InitMouse == InitMouseWith([mesh \in Meshes |-> TRUE])

OnMouseMove ==
    /\ \E intersects \in Hits(MaxHits), scene \in SceneShapes :
          onMouseMove(intersects, scene)
    /\ UNCHANGED <<registryVars, decorVars, unitVars, materialVars, moreVars>>
    /\ UNCHANGED loopVars

NextMouse == OnMouseMove \/ SetCamera

(***************************************************************************)
(* Orbit controls (part_021).  prepareConstruct creates controls when the  *)
(* camera is a PerspectiveCamera, saves their state and resets them;       *)
(* prepareOrbitControls configures them and saves their state again;       *)
(* resetConstructedScene calls controls.reset().  Camera and target are    *)
(* points of one axis.  OrbitControls.reset() puts back the saved target,  *)
(* position and zoom and runs update(), which keeps the distance between   *)
(* camera and target within minDistance..maxDistance.                      *)
(***************************************************************************)
MaxPosition == 3

Positions == 0..MaxPosition

Targets == {0, 1}

Zooms == {1, 2}

\* controls.maxDistance = orbitConfig.maxDistance ?? Infinity
Infinity == 1000

\* an optional number of a config: <<>> when undefined, <<n>> otherwise
OrDefault(opt, default) == IF opt = <<>> THEN default ELSE opt[1]

OrbitConfigs ==
    {[enabled |-> e, minDistance |-> mn, maxDistance |-> mx] :
        e \in BOOLEAN, mn \in {<<>>, <<2>>}, mx \in {<<>>, <<2>>}}

Distance(position, target) ==
    IF position >= target THEN position - target ELSE target - position

\* an update() that does not limit the distance
UnlimitedPosition(position, target, minDistance, maxDistance) == position

\* update(): the camera is moved along its line to the target until its distance
\* is within minDistance..maxDistance
LimitedPosition(position, target, minDistance, maxDistance) ==
    LET d == Distance(position, target)
        r == IF d < minDistance THEN minDistance
             ELSE IF d > maxDistance THEN maxDistance ELSE d
    IN IF position >= target THEN target + r ELSE target - r

View == [position |-> orbit.position, target |-> orbit.target, zoom |-> orbit.zoom]

\* a saveState() that keeps the zoom saved before
SavedStateOldZoom(o) ==
    [o EXCEPT !.position0 = o.position, !.target0 = o.target]

\* controls.saveState()
saveState(o) ==
    [o EXCEPT !.position0 = o.position, !.target0 = o.target, !.zoom0 = o.zoom]

\* controls.reset()
reset(o) ==
    [o EXCEPT !.target = o.target0,
              !.position = LimitedPosition(o.position0, o.target0,
                                           o.minDistance, o.maxDistance),
              !.zoom = o.zoom0]

prepareOrbitControls(c) ==
    /\ orbit' = IF orbit.exists
                THEN saveState([orbit EXCEPT
                                  !.enabled = c.enabled,
                                  !.minDistance = OrDefault(c.minDistance, 0),
                                  !.maxDistance = OrDefault(c.maxDistance, Infinity)])
                ELSE orbit
    /\ orbitSnapshot' = [taken |-> TRUE, changed |-> FALSE, view |-> View]
    /\ lastOrbit' = [op |-> "prepareOrbitControls", before |-> View]

resetConstructedScene ==
    /\ orbit' = IF orbit.exists THEN reset(orbit) ELSE orbit
    /\ lastOrbit' = [op |-> "resetConstructedScene", before |-> View]
    /\ UNCHANGED orbitSnapshot

\* the camera and the controls are handed out (basicControls, controls): the user's
\* orbiting and the application move the camera, the target and the zoom
orbitChange(position, target, zoom) ==
    /\ orbit' = [orbit EXCEPT
                   !.position = position,
                   !.target = IF orbit.exists THEN target ELSE orbit.target,
                   !.zoom = zoom]
    /\ orbitSnapshot' = [orbitSnapshot EXCEPT
                           !.changed = @ \/ orbit'.position # orbit.position]
    /\ lastOrbit' = [op |-> "change", before |-> View]

\* controls.minDistance = boundingBoxEdge (studio-container.component.ts)
setMinDistance(d) ==
    /\ orbit.exists
    /\ orbit' = [orbit EXCEPT !.minDistance = d]
    /\ lastOrbit' = [op |-> "minDistance", before |-> View]
    /\ UNCHANGED orbitSnapshot

\* prepareConstruct with a camera at position, perspective or not: target 0,
\* controls disabled, state saved, resetConstructedScene() called once
InitOrbitWith(perspective, position) ==
    /\ orbit = [exists |-> perspective, enabled |-> FALSE,
                minDistance |-> 0, maxDistance |-> Infinity,
                position |-> position, target |-> 0, zoom |-> 1,
                position0 |-> position, target0 |-> 0, zoom0 |-> 1]
    /\ orbitSnapshot = [taken |-> FALSE, changed |-> FALSE,
                        view |-> [position |-> position, target |-> 0, zoom |-> 1]]
    /\ lastOrbit = [op |-> "resetConstructedScene",
                    before |-> [position |-> position, target |-> 0, zoom |-> 1]]

InitOrbit == InitOrbitWith(TRUE, 1)


PrepareOrbitControls ==
    /\ \E c \in OrbitConfigs : prepareOrbitControls(c)
    /\ UNCHANGED exceptOrbit

ResetConstructedScene ==
    /\ resetConstructedScene
    /\ UNCHANGED exceptOrbit

OrbitChange ==
    /\ \E position \in Positions, target \in Targets, zoom \in Zooms :
          orbitChange(position, target, zoom)
    /\ UNCHANGED exceptOrbit

SetMinDistance ==
    /\ \E d \in {0, 2} : setMinDistance(d)
    /\ UNCHANGED exceptOrbit

NextOrbit ==
    \/ PrepareOrbitControls
    \/ ResetConstructedScene
    \/ OrbitChange
    \/ SetMinDistance

(***************************************************************************)
(* Light configuration (light.ts): the config record, the underlying       *)
(* THREE light built from it, getConfig and the setters.  An optional      *)
(* field of the config, and a property the THREE object does not have, is  *)
(* <<>>; a present one is <<n>>.                                           *)
(***************************************************************************)
\* THREE.Color keeps 24 bits of a hex number: new Color(n).getHex()
ColorRange == 16777216
Hex(n) == n % ColorRange

MaxLightOps == 2
LightColors == {1, 2, ColorRange + 1}
Intensities == {1, 2}
Vectors == {<<0, 0, 0>>, <<1, 2, 3>>}
PositionKinds == {"Directional", "Point", "Spot"}
LightKinds == LightTypes \ {"Unknown"}

\* lightConfigSchema: the configs it accepts (position has three numbers)
LightConfigs ==
    {[type |-> t, color |-> c, intensity |-> i, position |-> p,
      skyColor |-> s, groundColor |-> g, width |-> w[1], height |-> w[2]] :
        t \in LightTypes, c \in LightColors, i \in Intensities, p \in Vectors,
        s \in {<<>>, <<2>>}, g \in {<<>>, <<1>>},
        w \in {<< <<>>, <<>> >>, << <<2>>, <<3>> >>}}

\* no underlying light (createLight returned undefined)
NoLight == [kind |-> "none", color |-> 0, groundColor |-> <<>>, intensity |-> 0,
            position |-> <<0, 0, 0>>, width |-> <<>>, height |-> <<>>]

\* new THREE.<Kind>Light(color, intensity): position is the Object3D default
ThreeLight(kind, color, intensity) ==
    [kind |-> kind, color |-> Hex(color), groundColor |-> <<>>,
     intensity |-> intensity, position |-> <<0, 0, 0>>,
     width |-> <<>>, height |-> <<>>]

\* createLight(config)
createLightFromConfig(config) ==
    CASE config.type = "Ambient" ->
            ThreeLight("Ambient", config.color, config.intensity)
      [] config.type \in PositionKinds ->
            [ThreeLight(config.type, config.color, config.intensity)
                EXCEPT !.position = config.position]
      [] config.type = "Hemisphere" ->
            [ThreeLight("Hemisphere", OrDefault(config.skyColor, config.color),
                        config.intensity)
                EXCEPT !.groundColor =
                          <<Hex(OrDefault(config.groundColor, config.color))>>]
      [] config.type = "RectArea" ->
            [ThreeLight("RectArea", config.color, config.intensity)
                EXCEPT !.width = <<OrDefault(config.width, 1)>>,
                       !.height = <<OrDefault(config.height, 1)>>]
      [] OTHER -> NoLight

\* the position part of the setter, on a given THREE light
PositionSet(l, v) == IF l.kind \in LightKinds THEN [l EXCEPT !.position = v] ELSE l

\* new Light(config): createLight, then setLightPosition(config.position)
LightOf(config) ==
    [config |-> config,
     light |-> PositionSet(createLightFromConfig(config), config.position)]

\* getConfig() writes the live values into #config, kind by kind, a copy-paste
\* slip away: groundColor read from the sky colour
ConfigGroundFromSky(config, l) ==
    CASE l.kind \in PositionKinds ->
            [config EXCEPT !.position = l.position, !.color = l.color,
                           !.intensity = l.intensity]
      [] l.kind = "Hemisphere" ->
            [config EXCEPT !.color = l.color, !.intensity = l.intensity,
                           !.skyColor = <<l.color>>, !.groundColor = <<l.color>>]
      [] l.kind = "RectArea" ->
            [config EXCEPT !.color = l.color, !.intensity = l.intensity,
                           !.width = l.width, !.height = l.height]
      [] l.kind = "Ambient" ->
            [config EXCEPT !.color = l.color, !.intensity = l.intensity]
      [] OTHER -> config

\* getConfig(): the config it returns, which is #config itself, rewritten
ConfigRead(config, l) ==
    CASE l.kind \in PositionKinds ->
            [config EXCEPT !.position = l.position, !.color = l.color,
                           !.intensity = l.intensity]
      [] l.kind = "Hemisphere" ->
            [config EXCEPT !.color = l.color, !.intensity = l.intensity,
                           !.skyColor = <<l.color>>, !.groundColor = l.groundColor]
      [] l.kind = "RectArea" ->
            [config EXCEPT !.color = l.color, !.intensity = l.intensity,
                           !.width = l.width, !.height = l.height]
      [] l.kind = "Ambient" ->
            [config EXCEPT !.color = l.color, !.intensity = l.intensity]
      [] OTHER -> config

\* the observation of one call on the Light: the call, its arguments, the THREE
\* light before it, and the call before it
LightCall(op, arg) ==
    [op |-> op, arg |-> arg, before |-> lightInst.light,
     prevOp |-> lastLight.op, prevArg |-> lastLight.arg]

LightStep(op, arg) ==
    /\ lightSteps < MaxLightOps
    /\ lightSteps' = lightSteps + 1
    /\ lastLight' = LightCall(op, arg)
    /\ UNCHANGED given

getConfig ==
    /\ lightInst' = [lightInst EXCEPT !.config = ConfigRead(@, lightInst.light)]
    /\ LightStep("getConfig", <<>>)

\* new Light(light.getConfig())
reconstruct ==
    /\ lightInst' = LightOf(ConfigRead(lightInst.config, lightInst.light))
    /\ LightStep("reconstruct", <<>>)

setLightPosition(newPosition) ==
    /\ lightInst' = [lightInst EXCEPT !.light = PositionSet(@, newPosition)]
    /\ LightStep("setLightPosition", newPosition)

setLightColor(newColor) ==
    /\ lightInst' = [lightInst EXCEPT !.light =
                        IF @.kind \in LightKinds
                        THEN [@ EXCEPT !.color = Hex(newColor)] ELSE @]
    /\ LightStep("setLightColor", <<newColor>>)

setSkyColor(newSkyColor) ==
    /\ lightInst' = [lightInst EXCEPT !.light =
                        IF @.kind = "Hemisphere"
                        THEN [@ EXCEPT !.color = Hex(newSkyColor)] ELSE @]
    /\ LightStep("setSkyColor", <<newSkyColor>>)

\* a slip: the ground colour written to the sky colour
setGroundColorAsSky(newGroundColor) ==
    /\ lightInst' = [lightInst EXCEPT !.light =
                        IF @.kind = "Hemisphere"
                        THEN [@ EXCEPT !.color = Hex(newGroundColor)] ELSE @]
    /\ LightStep("setGroundColor", <<newGroundColor>>)

setGroundColor(newGroundColor) ==
    /\ lightInst' = [lightInst EXCEPT !.light =
                        IF @.kind = "Hemisphere"
                        THEN [@ EXCEPT !.groundColor = <<Hex(newGroundColor)>>]
                        ELSE @]
    /\ LightStep("setGroundColor", <<newGroundColor>>)

setLightIntensity(newIntensity) ==
    /\ lightInst' = [lightInst EXCEPT !.light =
                        IF @.kind \in LightKinds
                        THEN [@ EXCEPT !.intensity = newIntensity] ELSE @]
    /\ LightStep("setLightIntensity", <<newIntensity>>)

setNewRectAreaLightSize(newWidth, newHeight) ==
    /\ lightInst' = [lightInst EXCEPT !.light =
                        IF @.kind = "RectArea"
                        THEN [@ EXCEPT !.width = <<newWidth>>,
                                       !.height = <<newHeight>>]
                        ELSE @]
    /\ LightStep("setNewRectAreaLightSize", <<newWidth, newHeight>>)

\* const light = new Light(config)
InitLightConfigWith(config) ==
    /\ given = config
    /\ lightInst = LightOf(config)
    /\ lightSteps = 0
    /\ lastLight = [op |-> "new", arg |-> <<>>, before |-> NoLight,
                    prevOp |-> "none", prevArg |-> <<>>]

\* the light of the tests: Directional, intensity 1, at the origin
InitLightConfig ==
    InitLightConfigWith([type |-> "Directional", color |-> 2, intensity |-> 1,
                         position |-> <<0, 0, 0>>, skyColor |-> <<>>,
                         groundColor |-> <<>>, width |-> <<>>, height |-> <<>>])

GetConfig ==
    /\ getConfig
    /\ UNCHANGED exceptLightConfig

Reconstruct ==
    /\ reconstruct
    /\ UNCHANGED exceptLightConfig

SetLightPosition ==
    /\ setLightPosition(<<4, 5, 6>>)
    /\ UNCHANGED exceptLightConfig

SetLightColor ==
    /\ \E newColor \in {3, ColorRange + 3} : setLightColor(newColor)
    /\ UNCHANGED exceptLightConfig

SetSkyColor ==
    /\ \E newSkyColor \in {3, ColorRange + 3} : setSkyColor(newSkyColor)
    /\ UNCHANGED exceptLightConfig

SetGroundColor ==
    /\ \E newGroundColor \in {4, ColorRange + 4} : setGroundColor(newGroundColor)
    /\ UNCHANGED exceptLightConfig

SetLightIntensity ==
    /\ setLightIntensity(3)
    /\ UNCHANGED exceptLightConfig

SetNewRectAreaLightSize ==
    /\ setNewRectAreaLightSize(5, 10)
    /\ UNCHANGED exceptLightConfig

NextLightConfig ==
    \/ GetConfig
    \/ Reconstruct
    \/ SetLightPosition
    \/ SetLightColor
    \/ SetSkyColor
    \/ SetGroundColor
    \/ SetLightIntensity
    \/ SetNewRectAreaLightSize

(***************************************************************************)
(* Camera (part_019): the config schema, createCamera, the Camera class    *)
(* and its updateCameraWindowSize.  An aspect is the quotient of two       *)
(* numbers, kept as a fraction in lowest terms.                            *)
(***************************************************************************)
MaxSide == 3
Sides == (0 - 1)..MaxSide
WindowSides == 1..MaxSide
CameraTypes == {"perspective", "orthographic", "undefined"}

\* every cameraConfig of the bounded sides, valid or not
CameraConfigs == [type : CameraTypes, width : Sides, height : Sides]

\* a schema that lets a zero side pass: z.number().nonnegative()
SchemaNonNegative(cf) == cf.type \in CameraTypes /\ cf.width >= 0 /\ cf.height >= 0

\* cameraConfigSchema.safeParse(cf).success
cameraConfigSchema(cf) == cf.type \in CameraTypes /\ cf.width > 0 /\ cf.height > 0

RECURSIVE GCD(_, _)
GCD(a, b) == IF b = 0 THEN a ELSE GCD(b, a % b)

\* a / b for numbers a >= 0, b >= 0
Quotient(a, b) ==
    LET g == GCD(a, b)
    IN  IF g = 0 THEN <<0, 0>> ELSE <<a \div g, b \div g>>

\* no camera object: the constructor threw, or the type is UNDEFINED
NoCamera == [kind |-> "none", aspect |-> <<0, 0>>, bounds |-> <<0, 0>>]

\* new THREE.PerspectiveCamera(fov, width / height, near, far) or
\* new THREE.OrthographicCamera(width / -2, width / 2, height / 2, height / -2, ..)
ThreeCamera(cf) ==
    CASE cf.type = "perspective" ->
            [kind |-> "perspective", aspect |-> Quotient(cf.width, cf.height),
             bounds |-> <<0, 0>>]
      [] cf.type = "orthographic" ->
            [kind |-> "orthographic", aspect |-> <<0, 0>>,
             bounds |-> <<cf.width, cf.height>>]
      [] OTHER -> NoCamera

CameraCall(op, cf, threw) ==
    [op |-> op, type |-> cf.type, width |-> cf.width, height |-> cf.height,
     threw |-> threw]

\* const c = new Camera(cf): c is bound only when the constructor returns
newCamera(cf) ==
    /\ cameraInst' = IF cameraConfigSchema(cf)
                     THEN [made |-> TRUE, camera |-> ThreeCamera(cf)]
                     ELSE [made |-> FALSE, camera |-> NoCamera]
    /\ lastCamera' = CameraCall("new", cf, ~cameraConfigSchema(cf))

\* const camera = createCamera(cf)
createCamera(cf) ==
    /\ cameraInst' = IF cameraConfigSchema(cf)
                     THEN [made |-> FALSE, camera |-> ThreeCamera(cf)]
                     ELSE [made |-> FALSE, camera |-> NoCamera]
    /\ lastCamera' = CameraCall("createCamera", cf, ~cameraConfigSchema(cf))

\* a slip: the aspect taken as height over width
cameraUpdateWindowSizeInverse(newWidth, newHeight) ==
    /\ cameraInst.made
    /\ cameraInst' = IF cameraInst.camera.kind = "perspective"
                     THEN [cameraInst EXCEPT
                             !.camera.aspect = Quotient(newHeight, newWidth)]
                     ELSE cameraInst
    /\ lastCamera' = [lastCamera EXCEPT !.op = "updateCameraWindowSize",
                        !.width = newWidth, !.height = newHeight, !.threw = FALSE]

\* Camera.updateCameraWindowSize(newWidth, newHeight)
cameraUpdateWindowSize(newWidth, newHeight) ==
    /\ cameraInst.made
    /\ cameraInst' = IF cameraInst.camera.kind = "perspective"
                     THEN [cameraInst EXCEPT
                             !.camera.aspect = Quotient(newWidth, newHeight)]
                     ELSE cameraInst
    /\ lastCamera' = [lastCamera EXCEPT !.op = "updateCameraWindowSize",
                        !.width = newWidth, !.height = newHeight, !.threw = FALSE]

\* the camera of construct(width, height): perspective, 3 by 2
InitCamera ==
    LET cf == [type |-> "perspective", width |-> 3, height |-> 2]
    IN  /\ cameraInst = [made |-> TRUE, camera |-> ThreeCamera(cf)]
        /\ lastCamera = CameraCall("new", cf, FALSE)

NewCamera ==
    /\ \E cf \in CameraConfigs : newCamera(cf)
    /\ UNCHANGED exceptCamera

CreateCamera ==
    /\ \E cf \in CameraConfigs : createCamera(cf)
    /\ UNCHANGED exceptCamera

CameraUpdateWindowSize ==
    /\ \E newWidth \in WindowSides, newHeight \in WindowSides :
          cameraUpdateWindowSize(newWidth, newHeight)
    /\ UNCHANGED exceptCamera

NextCamera ==
    \/ NewCamera
    \/ CreateCamera
    \/ CameraUpdateWindowSize

(***************************************************************************)
(* glbLoader (loader.ts) and addGlb (part_021): a load is started once per *)
(* call and its promise settles once; the then-callback of addGlb runs     *)
(* when it is fulfilled.                                                   *)
(***************************************************************************)
MaxLoads == 2
GlbNames == {"a", "b"}

ViewSphereKey(name) == name \o "-view-sphere"

\* the contentGroup and the view sphere addGlb builds for its n-th load
GlbGroup(name, n) == [kind |-> "group", id |-> name, gen |-> n]
ViewSphere(name, n) == [kind |-> "view-sphere", id |-> name, gen |-> n]

\* the promise of glbLoader once the loader has called back
Settled(outcome) == IF outcome = "error" THEN "rejected" ELSE "fulfilled"

\* a then-callback that does not look at what the load gave
ContentAddedAlways(registry, load, outcome) ==
    MapSet(MapSet(registry, load.name, GlbGroup(load.name, load.n)),
           ViewSphereKey(load.name), ViewSphere(load.name, load.n))

\* construct.content after the promise of load has settled with outcome:
\* if (gltf?.scene) { addContent(name, ..); addContent(`${name}-view-sphere`, ..) }
ContentAdded(registry, load, outcome) ==
    IF outcome = "content"
    THEN MapSet(MapSet(registry, load.name, GlbGroup(load.name, load.n)),
                ViewSphereKey(load.name), ViewSphere(load.name, load.n))
    ELSE registry

NoLoad == [op |-> "none", name |-> "none", n |-> 0, outcome |-> "none",
           promise |-> "none", contentBefore |-> <<>>, sceneBefore |-> {},
           callsBefore |-> 0]

\* addGlb(name, contentBase64, path): glbLoader is called, nothing else yet
addGlb(name) ==
    /\ loaderCalls < MaxLoads
    /\ loaderCalls' = loaderCalls + 1
    /\ glbLoads' = glbLoads \cup {[name |-> name, n |-> loaderCalls + 1]}
    /\ lastLoad' = [NoLoad EXCEPT !.op = "addGlb", !.name = name,
                      !.n = loaderCalls + 1, !.promise = "pending",
                      !.contentBefore = content, !.sceneBefore = sceneChildren,
                      !.callsBefore = loaderCalls]
    /\ UNCHANGED <<content, sceneChildren, lastOp>>

\* the loader calls back and the promise of load settles; the then-callback of
\* addGlb runs if it was fulfilled
addGlbSettled(load, outcome) ==
    /\ load \in glbLoads
    /\ glbLoads' = glbLoads \ {load}
    /\ content' = ContentAdded(content, load, outcome)
    /\ sceneChildren' = IF content' # content
                        THEN SceneAdd(SceneAdd(sceneChildren,
                                               GlbGroup(load.name, load.n)),
                                      ViewSphere(load.name, load.n))
                        ELSE sceneChildren
    /\ lastOp' = IF content' # content
                 THEN [op |-> "addContent", key |-> ViewSphereKey(load.name),
                       node |-> ViewSphere(load.name, load.n)]
                 ELSE lastOp
    /\ lastLoad' = [op |-> "settled", name |-> load.name, n |-> load.n,
                    outcome |-> outcome, promise |-> Settled(outcome),
                    contentBefore |-> content, sceneBefore |-> sceneChildren,
                    callsBefore |-> loaderCalls]
    /\ UNCHANGED loaderCalls

InitLoad ==
    /\ glbLoads = {}
    /\ loaderCalls = 0
    /\ lastLoad = NoLoad

AddGlb ==
    /\ \E name \in GlbNames : addGlb(name)
    /\ UNCHANGED exceptLoad

AddGlbSettled ==
    /\ \E load \in glbLoads, outcome \in LoadOutcomes : addGlbSettled(load, outcome)
    /\ UNCHANGED exceptLoad

NextLoad ==
    \/ AddGlb
    \/ AddGlbSettled
    \/ ConstructRotationCube
    \/ CubeLoadSettled
    \/ GlbScene
    \/ GlbLoadSettled

(***************************************************************************)
(* The ground unit (ground.ts, part_008): its grid and                     *)
(* reCalculateDimensions.  Lengths and coordinates are counted in halves,  *)
(* so that Math.ceil has something to round.                               *)
(***************************************************************************)
MaxGrids == 3

\* bounding boxes: min and max as <<x, y, z>>, in halves
Boxes ==
    {[min |-> <<x1, y1, z1>>, max |-> <<x2, 4, z2>>] :
        x1 \in {0 - 3, 0}, x2 \in {1, 4}, y1 \in {0 - 1, 0}, z1 \in {0 - 3, 0},
        z2 \in {0, 5}}

GroundVariants == {"helper", "rectangular"}

\* Math.ceil and Math.max on halves
Ceil(h) == IF h % 2 = 0 THEN h ELSE h + 1
Max(a, b) == IF a >= b THEN a ELSE b

ExtentX(box) == box.max[1] - box.min[1]
ExtentZ(box) == box.max[3] - box.min[3]

\* new THREE.GridHelper(1, 10) / createRectangularGrid(1, 1, 10, 10)
FirstGrid == [gen |-> 0, sizeX |-> 2, sizeZ |-> 2, y |-> 0, visible |-> TRUE]

\* the grid reCalculateDimensions builds: a square THREE.GridHelper of side
\* ceil(max(dx, dz)) at y = min.y * 1.05 (ground.ts), or a rectangular grid of
\* ceil(dx) + 0.5 by ceil(dz) + 0.5 at y = min.y * 1.2 (part_008); y in 1/200
GridFor(variant, box, gen) ==
    IF variant = "helper"
    THEN [gen |-> gen, sizeX |-> Ceil(Max(ExtentX(box), ExtentZ(box))),
          sizeZ |-> Ceil(Max(ExtentX(box), ExtentZ(box))),
          y |-> box.min[2] * 105, visible |-> TRUE]
    ELSE [gen |-> gen, sizeX |-> Ceil(ExtentX(box)) + 1,
          sizeZ |-> Ceil(ExtentZ(box)) + 1,
          y |-> box.min[2] * 120, visible |-> TRUE]

GroundCall(op, box) ==
    [op |-> op, box |-> box, sceneBefore |-> groundScene,
     gridBefore |-> ground.gridHelper.gen]

\* a reCalculateDimensions that forgets scene.remove(gridHelper)
groundReCalculateKeepsOld(dimensions) ==
    /\ ground.gridHelper.gen < MaxGrids
    /\ ground' = [ground EXCEPT !.gridHelper =
                     GridFor(ground.variant, dimensions, @.gen + 1)]
    /\ groundScene' = groundScene \cup {ground'.gridHelper.gen}
    /\ lastGround' = GroundCall("reCalculateDimensions", dimensions)

\* reCalculateDimensions(dimensions): scene.remove(gridHelper), a new grid from
\* dimensions.boundingBox, scene.add(gridHelper)
groundReCalculateDimensions(dimensions) ==
    /\ ground.gridHelper.gen < MaxGrids
    /\ ground' = [ground EXCEPT !.gridHelper =
                     GridFor(ground.variant, dimensions, @.gen + 1)]
    /\ groundScene' = (groundScene \ {ground.gridHelper.gen})
                         \cup {ground'.gridHelper.gen}
    /\ lastGround' = GroundCall("reCalculateDimensions", dimensions)

\* visible(vis): the plane (ground.ts) or the current grid (part_008)
groundVisible(vis) ==
    /\ ground' = IF ground.variant = "helper"
                 THEN [ground EXCEPT !.planeVisible = vis]
                 ELSE [ground EXCEPT !.gridHelper.visible = vis]
    /\ lastGround' = [lastGround EXCEPT !.op = "visible",
                        !.sceneBefore = groundScene,
                        !.gridBefore = ground.gridHelper.gen]
    /\ UNCHANGED groundScene

\* ground(scene): the first grid is built and not added to the scene
InitGroundWith(variant) ==
    /\ ground = [variant |-> variant, gridHelper |-> FirstGrid,
                 planeVisible |-> TRUE]
    /\ groundScene = {}
    /\ lastGround = [op |-> "ground",
                     box |-> [min |-> <<0, 0, 0>>, max |-> <<0, 0, 0>>],
                     sceneBefore |-> {}, gridBefore |-> 0]

InitGround == InitGroundWith("helper")

GroundReCalculateDimensions ==
    /\ \E dimensions \in Boxes : groundReCalculateDimensions(dimensions)
    /\ UNCHANGED exceptGround

GroundVisible ==
    /\ \E vis \in BOOLEAN : groundVisible(vis)
    /\ UNCHANGED exceptGround

NextGround ==
    \/ GroundReCalculateDimensions
    \/ GroundVisible

(***************************************************************************)
(* Card deck (card-deck.ts, utils/shuffler.ts).  Math.random() yields one  *)
(* of the fractions 0/RandomSteps .. (RandomSteps-1)/RandomSteps; a call   *)
(* of a shuffle is given the draws it will make, rnd.                      *)
(***************************************************************************)
MaxDeck == 3
RandomSteps == 3
MaxDeckOps == 3

\* models/card.ts
suits == <<"Diamonds", "Spades", "Hearts", "Clubs">>
values == <<"2", "3", "4", "5", "6", "7", "8", "9", "10", "Jack", "Queen", "King",
            "Ace">>

\* the card createDeck makes of a suit and a value
Card(suit, value) ==
    [suit |-> suit, value |-> value,
     color |-> IF suit = "Hearts" \/ suit = "Diamonds" THEN "Red" ELSE "Black"]

Cards == {Card("Hearts", "2"), Card("Spades", "King"), Card("Clubs", "Ace")}
Algorithms == {"fisher-yates", "riffle"}

\* the arrays a caller may hand to shuffle: cards in any order, repeated or not
Decks == UNION {[1..n -> Cards] : n \in 0..MaxDeck}

Randoms == [1..MaxDeck -> 0..(RandomSteps - 1)]

\* the k-th Math.random() of a call, times RandomSteps; the draws beyond those
\* given are the last fraction
Random(rnd, k) == IF k <= MaxDeck THEN rnd[k] ELSE RandomSteps - 1

\* an exchange that only copies one way
SwapOverwrite(d, i, j) == [d EXCEPT ![i] = d[j]]

\* [deck[i], deck[j]] = [deck[j], deck[i]]
Swap(d, i, j) == [d EXCEPT ![i] = d[j], ![j] = d[i]]

\* the loop of fisherYatesShuffle from position i (counted from 1) down to 2,
\* with j = Math.floor(Math.random() * i) + 1
RECURSIVE FisherYatesFrom(_, _, _)
FisherYatesFrom(d, i, rnd) ==
    IF i < 2 THEN d
    ELSE FisherYatesFrom(
            Swap(d, i, ((Random(rnd, Len(d) - i + 1) * i) \div RandomSteps) + 1),
            i - 1, rnd)

\* fisherYatesShuffle(deck): the array itself, reordered
fisherYatesShuffle(d, rnd) == FisherYatesFrom(d, Len(d), rnd)

\* the loop of riffleShuffle; Math.random() is called only while left has cards
RECURSIVE RiffleLoop(_, _, _, _, _)
RiffleLoop(left, right, shuffled, rnd, k) ==
    IF left = <<>> /\ right = <<>> THEN shuffled
    ELSE LET fromLeft == left # <<>> /\ Random(rnd, k) * 2 > RandomSteps
             s1 == IF fromLeft THEN Append(shuffled, Head(left)) ELSE shuffled
             l1 == IF fromLeft THEN Tail(left) ELSE left
             s2 == IF right # <<>> THEN Append(s1, Head(right)) ELSE s1
             r2 == IF right # <<>> THEN Tail(right) ELSE right
         IN  RiffleLoop(l1, r2, s2, rnd, IF left # <<>> THEN k + 1 ELSE k)

\* riffleShuffle(deck): a new array, the deck is left as it was
riffleShuffle(d, rnd) ==
    LET cut == Len(d) \div 2
    IN  RiffleLoop(SubSeq(d, 1, cut), SubSeq(d, cut + 1, Len(d)), <<>>, rnd, 1)

\* shuffle(deck): the array after the call, which is also what is returned
Shuffled(d, algorithm, rnd) ==
    IF algorithm = "fisher-yates" THEN fisherYatesShuffle(d, rnd) ELSE d

\* shuffle(deck)
shuffle(rnd) ==
    /\ deck' = Shuffled(deck, shuffleAlgorithm, rnd)
    /\ lastDeck' = [op |-> "shuffle", algorithm |-> shuffleAlgorithm,
                    before |-> deck, returned |-> deck',
                    inner |-> IF shuffleAlgorithm = "fisher-yates"
                              THEN fisherYatesShuffle(deck, rnd)
                              ELSE riffleShuffle(deck, rnd),
                    threw |-> FALSE]
    /\ UNCHANGED shuffleAlgorithm

setShuffleAlgorithm(algorithm) ==
    /\ shuffleAlgorithm' = algorithm
    /\ lastDeck' = [op |-> "setShuffleAlgorithm", algorithm |-> algorithm,
                    before |-> deck, returned |-> <<>>, inner |-> <<>>,
                    threw |-> FALSE]
    /\ UNCHANGED deck

\* suits.flatMap(suit => values.map(value => card)): the cards suit by suit
FullDeck ==
    [i \in 1..(Len(suits) * Len(values)) |->
        Card(suits[((i - 1) \div Len(values)) + 1],
             values[((i - 1) % Len(values)) + 1])]

\* a createDeck that hands out the array it handed out before
createDeckShared ==
    /\ deck' = deck
    /\ lastDeck' = [op |-> "createDeck", algorithm |-> shuffleAlgorithm,
                    before |-> deck, returned |-> deck', inner |-> <<>>,
                    threw |-> FALSE]
    /\ UNCHANGED shuffleAlgorithm

\* createDeck(): the caller now holds the array it returns
createDeck ==
    /\ deck' = FullDeck
    /\ lastDeck' = [op |-> "createDeck", algorithm |-> shuffleAlgorithm,
                    before |-> deck, returned |-> deck', inner |-> <<>>,
                    threw |-> FALSE]
    /\ UNCHANGED shuffleAlgorithm

\* peekCard(deck): throws on an empty array, else returns the last card
peekCard ==
    /\ lastDeck' = [op |-> "peekCard", algorithm |-> shuffleAlgorithm,
                    before |-> deck,
                    returned |-> IF Len(deck) = 0 THEN <<>> ELSE <<deck[Len(deck)]>>,
                    inner |-> <<>>, threw |-> Len(deck) = 0]
    /\ UNCHANGED <<deck, shuffleAlgorithm>>

\* a draw that takes the first card (shift for pop)
drawCardShift ==
    /\ deck' = IF deck = <<>> THEN deck ELSE Tail(deck)
    /\ lastDeck' = [op |-> "drawCard", algorithm |-> shuffleAlgorithm,
                    before |-> deck,
                    returned |-> IF deck = <<>> THEN <<>> ELSE <<Head(deck)>>,
                    inner |-> <<>>, threw |-> deck = <<>>]
    /\ UNCHANGED shuffleAlgorithm

\* drawCard(deck): throws on an empty array, else pops and returns the last card
drawCard ==
    /\ deck' = IF Len(deck) = 0 THEN deck ELSE SubSeq(deck, 1, Len(deck) - 1)
    /\ lastDeck' = [op |-> "drawCard", algorithm |-> shuffleAlgorithm,
                    before |-> deck,
                    returned |-> IF Len(deck) = 0 THEN <<>> ELSE <<deck[Len(deck)]>>,
                    inner |-> <<>>, threw |-> Len(deck) = 0]
    /\ UNCHANGED shuffleAlgorithm

\* riffleShuffle(d) about to test its loop condition for the first time
RiffleEntered(d) ==
    [pc |-> "loop", input |-> d, left |-> SubSeq(d, 1, Len(d) \div 2),
     right |-> SubSeq(d, (Len(d) \div 2) + 1, Len(d)), shuffled |-> <<>>]

\* an iteration that takes from the left half only while the right has cards
riffleIterationWhileRight(r) ==
    LET fromLeft == riffle.left # <<>> /\ riffle.right # <<>> /\ r * 2 > RandomSteps
        s1 == IF fromLeft THEN Append(riffle.shuffled, Head(riffle.left))
              ELSE riffle.shuffled
        l1 == IF fromLeft THEN Tail(riffle.left) ELSE riffle.left
    IN  /\ riffle.pc = "loop"
        /\ riffle.left # <<>> \/ riffle.right # <<>>
        /\ riffle' = [riffle EXCEPT
                !.left = l1,
                !.right = IF riffle.right # <<>> THEN Tail(riffle.right) ELSE <<>>,
                !.shuffled = IF riffle.right # <<>> THEN Append(s1, Head(riffle.right))
                             ELSE s1]

\* one iteration of the loop of riffleShuffle; r is Math.random() times
\* RandomSteps, drawn only while left has cards
riffleIteration(r) ==
    LET fromLeft == riffle.left # <<>> /\ r * 2 > RandomSteps
        s1 == IF fromLeft THEN Append(riffle.shuffled, Head(riffle.left))
              ELSE riffle.shuffled
        l1 == IF fromLeft THEN Tail(riffle.left) ELSE riffle.left
    IN  /\ riffle.pc = "loop"
        /\ riffle.left # <<>> \/ riffle.right # <<>>
        /\ riffle' = [riffle EXCEPT
                !.left = l1,
                !.right = IF riffle.right # <<>> THEN Tail(riffle.right) ELSE <<>>,
                !.shuffled = IF riffle.right # <<>> THEN Append(s1, Head(riffle.right))
                             ELSE s1]

\* the loop condition fails: return shuffled
riffleReturn ==
    /\ riffle.pc = "loop"
    /\ riffle.left = <<>> /\ riffle.right = <<>>
    /\ riffle' = [riffle EXCEPT !.pc = "done"]

\* a caller's array d, the module just loaded
InitDeckWith(d) ==
    /\ deck = d
    /\ shuffleAlgorithm = "fisher-yates"
    /\ lastDeck = [op |-> "none", algorithm |-> "fisher-yates", before |-> d,
                   returned |-> <<>>, inner |-> <<>>, threw |-> FALSE]
    /\ deckOps = 0
    /\ riffle = RiffleEntered(d)

InitDeck ==
    InitDeckWith(<<Card("Hearts", "2"), Card("Spades", "King"), Card("Clubs", "Ace")>>)

Shuffle ==
    /\ \E rnd \in Randoms : shuffle(rnd)
    /\ UNCHANGED <<exceptDeck, deckOps, riffle>>

SetShuffleAlgorithm ==
    /\ \E algorithm \in Algorithms : setShuffleAlgorithm(algorithm)
    /\ UNCHANGED <<exceptDeck, deckOps, riffle>>

DrawCard ==
    /\ drawCard
    /\ UNCHANGED <<exceptDeck, deckOps, riffle>>

restOfDeck == <<exceptDeck, deck, shuffleAlgorithm, lastDeck, deckOps>>

\* an iteration whose draw, if it makes one, is above 0.5
RiffleIterateAbove ==
    /\ \E r \in 0..(RandomSteps - 1) : r * 2 > RandomSteps /\ riffleIteration(r)
    /\ UNCHANGED restOfDeck

\* an iteration whose draw, if it makes one, is not above 0.5
RiffleIterateNotAbove ==
    /\ \E r \in 0..(RandomSteps - 1) : r * 2 <= RandomSteps /\ riffleIteration(r)
    /\ UNCHANGED restOfDeck

RiffleReturn ==
    /\ riffleReturn
    /\ UNCHANGED restOfDeck

NextRiffle ==
    \/ RiffleIterateAbove
    \/ RiffleIterateNotAbove
    \/ RiffleReturn

PeekCard ==
    /\ peekCard
    /\ UNCHANGED <<exceptDeck, deckOps, riffle>>

NextDeck ==
    \/ Shuffle
    \/ SetShuffleAlgorithm

\* a caller that draws from and looks at its deck
NextDraw ==
    \/ DrawCard
    \/ PeekCard

\* the draws of a shuffle of a created deck: all the lowest or all the highest
\* fraction
ExtremeRandoms == {[k \in 1..MaxDeck |-> r] : r \in {0, RandomSteps - 1}}

CreateDeck ==
    /\ createDeck
    /\ deckOps' = 0
    /\ UNCHANGED <<exceptDeck, riffle>>

DrawCreated ==
    /\ deckOps < MaxDeckOps
    /\ drawCard
    /\ deckOps' = deckOps + 1
    /\ UNCHANGED <<exceptDeck, riffle>>

ShuffleCreated ==
    /\ deckOps < MaxDeckOps
    /\ \E rnd \in ExtremeRandoms : shuffle(rnd)
    /\ deckOps' = deckOps + 1
    /\ UNCHANGED <<exceptDeck, riffle>>

NextCreateDeck ==
    \/ CreateDeck
    \/ DrawCreated
    \/ ShuffleCreated
    \/ SetShuffleAlgorithm

(***************************************************************************)
(* glb scene units told apart by the name of their container               *)
(* (glb-scene.ts): a unit exists once glbScene(path) has returned, that is *)
(* after its load resolved; the root scene has the empty name.             *)
(***************************************************************************)
MaxAdds == 2
GlbUnitIds == {"u1", "u2"}
Paths == {"p.glb", "q.glb"}

NoGlbUnit == [made |-> FALSE, path |-> "", name |-> "", content |-> FALSE,
              hooked |-> FALSE, adds |-> 0]

\* the names scene.traverse visits: the root scene's own and those of the
\* containers attached to it
TraversedNames(units, root) ==
    {""} \cup {units[root[i]].name : i \in 1..Len(root)}

\* scene.traverse(child => { if (child.name === glbContainer.name) found = true })
Found(u, units, root) == units[u].name \in TraversedNames(units, root)

\* THREE.Object3D.add: an object is a child of its parent once
Object3DAdd(children, o) == Append(SelectSeq(children, LAMBDA x : x # o), o)

\* await glbScene(path): the load resolved with or without a scene, the handle
\* is returned; with a scene the container has it and is named after the path
glbSceneReturned(u, path, hasScene) ==
    /\ ~glbUnits[u].made
    /\ glbUnits' = [glbUnits EXCEPT ![u] =
                       [made |-> TRUE, path |-> path,
                        name |-> IF hasScene THEN path ELSE "",
                        content |-> hasScene, hooked |-> FALSE, adds |-> 0]]
    /\ UNCHANGED <<glbRegistered, glbRoot>>

\* addConstructedScene(key, unit) with a key of the unit's own
registerGlbScene(u) ==
    /\ glbUnits[u].made
    /\ \A i \in 1..Len(glbRegistered) : glbRegistered[i] # u
    /\ glbRegistered' = Append(glbRegistered, u)
    /\ UNCHANGED <<glbUnits, glbRoot>>

\* the hooks of a tick from the i-th registered unit on: animate -> addContent
RECURSIVE HooksFrom(_, _, _)
HooksFrom(i, units, root) ==
    IF i > Len(glbRegistered) THEN [units |-> units, root |-> root]
    ELSE LET u == glbRegistered[i]
             found == Found(u, units, root)
         IN  HooksFrom(i + 1,
                [units EXCEPT ![u].hooked = TRUE,
                              ![u].adds = IF found THEN @ ELSE @ + 1],
                IF found THEN root ELSE Object3DAdd(root, u))

\* for (const l of constructedScenes.values()) l.animate(renderer, scene, camera)
tickGlbScenes ==
    /\ \A u \in GlbUnitIds : glbUnits[u].adds < MaxAdds
    /\ glbUnits' = HooksFrom(1, glbUnits, glbRoot).units
    /\ glbRoot' = HooksFrom(1, glbUnits, glbRoot).root
    /\ UNCHANGED glbRegistered

InitAttach ==
    /\ glbUnits = [u \in GlbUnitIds |-> NoGlbUnit]
    /\ glbRegistered = <<>>
    /\ glbRoot = <<>>

GlbSceneReturned ==
    /\ \E u \in GlbUnitIds, path \in Paths, hasScene \in BOOLEAN :
          glbSceneReturned(u, path, hasScene)
    /\ UNCHANGED exceptAttach

RegisterGlbScene ==
    /\ \E u \in GlbUnitIds : registerGlbScene(u)
    /\ UNCHANGED exceptAttach

TickGlbScenes ==
    /\ tickGlbScenes
    /\ UNCHANGED exceptAttach

NextAttach ==
    \/ GlbSceneReturned
    \/ RegisterGlbScene
    \/ TickGlbScenes

(***************************************************************************)
(* The render loop when a hook or the callback throws (part_021:359-382):  *)
(* anim() requests its next frame, then does the work of the tick; an      *)
(* exception ends the tick where it is thrown.                             *)
(***************************************************************************)
\* what throws in a tick: nothing, the hook of a scene, or a callback
Throwers == {None} \cup Scenes \cup Callbacks

\* the indices of the calls of the tick that throw
ThrowsAt(events, t) ==
    {i \in 1..Len(events) :
        events[i].ev \in {"hook", "callback"} /\ events[i].arg = t}

Threw(events, t) == ThrowsAt(events, t) # {}

\* the events of the tick up to the call that throws
UntilThrow(events, t) ==
    IF Threw(events, t)
    THEN SubSeq(events, 1, CHOOSE i \in ThrowsAt(events, t) :
                              \A j \in ThrowsAt(events, t) : i <= j)
    ELSE events

\* a loop that requests the next frame when the work of the tick is done
RequestedAfterWork(queue, pfkt, threw) ==
    IF threw THEN queue ELSE Append(queue, pfkt)

\* requestAnimationFrame(anim) as the first statement of anim()
Requested(queue, pfkt, threw) == Append(queue, pfkt)

\* anim() for callback pfkt, the requests still waiting being queue
anim(queue, pfkt, t) ==
    /\ rafQueue' = Requested(queue, pfkt, Threw(Tick(pfkt), t))
    /\ tickLog' = UntilThrow(Tick(pfkt), t)
    /\ tickSeen' = Seen(pfkt)
    /\ tickThrew' = Threw(Tick(pfkt), t)
    /\ frames' = (frames + 1) % 2
    /\ UNCHANGED <<constructedScenes, insertionOrder, lastAdded, cameraDefined,
                   hookCalls, lastResize>>

\* animate(pfkt): anim() runs at once; what it throws reaches the caller
animateThrowing(pfkt, t) ==
    /\ Len(rafQueue) < MaxAnimateCalls
    /\ anim(rafQueue, pfkt, t)

\* the browser runs the oldest requested anim()
AnimationFrameThrowing(t) ==
    /\ rafQueue # <<>>
    /\ anim(Tail(rafQueue), Head(rafQueue), t)

InitFrame ==
    /\ frames = 0
    /\ tickThrew = FALSE

AnimateThrowing ==
    /\ \E pfkt \in Callbacks, t \in Throwers : animateThrowing(pfkt, t)
    /\ UNCHANGED exceptFrame

RunAnimationFrameThrowing ==
    /\ \E t \in Throwers : AnimationFrameThrowing(t)
    /\ UNCHANGED exceptFrame

NextFrames ==
    \/ AddConstructedScene
    \/ SetCamera
    \/ AnimateThrowing
    \/ RunAnimationFrameThrowing

(***************************************************************************)
(* Specifications: the subsystems do not share state, each is explored     *)
(* from the constructed state with the others at rest.                     *)
(***************************************************************************)
InitMore ==
    /\ InitOrbit /\ InitLightConfig /\ InitCamera /\ InitLoad /\ InitGround /\ InitDeck
    /\ InitAttach /\ InitFrame

InitScene == InitDecor /\ InitUnit /\ InitMaterial /\ InitMouse /\ InitMore

Init == InitRegistry /\ InitLoop /\ InitScene

Spec == Init /\ [][Next]_vars

SpecLoop == Init /\ [][NextLoop]_vars

SpecRegistries == Init /\ [][NextRegistries]_vars

SpecLightLife == Init /\ [][NextLightLife]_vars

SpecResize == Init /\ [][NextResize]_vars

InitSpecLight == InitLight /\ InitLoop /\ InitScene

SpecLight == InitSpecLight /\ [][NextLight]_vars

SpecDecor == Init /\ [][NextDecor]_vars

SpecUnit == Init /\ [][NextUnit]_vars

InitSpecMaterial ==
    /\ InitRegistry /\ InitLoop /\ InitDecor /\ InitUnitReady /\ InitMouse /\ InitMore
    /\ \E group \in BOOLEAN : InitMaterialWith(group)

SpecMaterial == InitSpecMaterial /\ [][NextMaterial]_vars

SpecAttach == Init /\ [][NextAttach]_vars

\* the browser runs every requested animation frame
SpecFrames == Init /\ [][NextFrames]_vars /\ WF_vars(RunAnimationFrameThrowing)

\* units not yet constructed, the scene to decorate without a contentGroup
InitSpecMaterialLoad ==
    /\ InitRegistry /\ InitLoop /\ InitDecor /\ InitUnit /\ InitMouse /\ InitMore
    /\ InitMaterialWith(FALSE)

SpecMaterialLoad == InitSpecMaterialLoad /\ [][NextMaterialLoad]_vars

InitSpecMouse ==
    /\ InitRegistry /\ InitLoop /\ InitDecor /\ InitUnit /\ InitMaterial /\ InitMore
    /\ \E vis \in [Meshes -> BOOLEAN] : InitMouseWith(vis)

SpecMouse == InitSpecMouse /\ [][NextMouse]_vars

InitBase ==
    InitRegistry /\ InitLoop /\ InitDecor /\ InitUnit /\ InitMaterial /\ InitMouse

InitSpecOrbit ==
    /\ InitBase /\ InitAttach /\ InitFrame /\ InitLightConfig /\ InitCamera /\ InitLoad /\ InitGround /\ InitDeck
    /\ \E perspective \in BOOLEAN, position \in {1, 3} :
          InitOrbitWith(perspective, position)

SpecOrbit == InitSpecOrbit /\ [][NextOrbit]_vars

InitSpecLightConfig ==
    /\ InitBase /\ InitAttach /\ InitFrame /\ InitOrbit /\ InitCamera /\ InitLoad /\ InitGround /\ InitDeck
    /\ \E config \in LightConfigs : InitLightConfigWith(config)

SpecLightConfig == InitSpecLightConfig /\ [][NextLightConfig]_vars

SpecCamera == Init /\ [][NextCamera]_vars

SpecLoad == Init /\ [][NextLoad]_vars

InitSpecGround ==
    /\ InitBase /\ InitAttach /\ InitFrame /\ InitOrbit /\ InitLightConfig /\ InitCamera /\ InitLoad /\ InitDeck
    /\ \E variant \in GroundVariants : InitGroundWith(variant)

SpecGround == InitSpecGround /\ [][NextGround]_vars

InitSpecDeck ==
    /\ InitBase /\ InitAttach /\ InitFrame /\ InitOrbit /\ InitLightConfig /\ InitCamera /\ InitLoad
    /\ InitGround
    /\ \E d \in Decks : InitDeckWith(d)

SpecDeck == InitSpecDeck /\ [][NextDeck]_vars

SpecDraw == InitSpecDeck /\ [][NextDraw]_vars

\* a caller that holds no deck yet
InitSpecCreateDeck ==
    /\ InitBase /\ InitAttach /\ InitFrame /\ InitOrbit /\ InitLightConfig /\ InitCamera /\ InitLoad
    /\ InitGround
    /\ InitDeckWith(<<>>)

SpecCreateDeck == InitSpecCreateDeck /\ [][NextCreateDeck]_vars

\* riffleShuffle runs to its end once called, and its draws are fair: of the
\* iterations it keeps making, one with a draw above 0.5 comes eventually
SpecRiffle ==
    /\ InitSpecDeck
    /\ [][NextRiffle]_vars
    /\ WF_vars(RiffleIterateAbove)
    /\ WF_vars(RiffleReturn)

(***************************************************************************)
(* Properties of the light and content registries                          *)
(***************************************************************************)

\* C1: every key of the lights registry and of the content registry maps to an
\* entry whose underlying node is attached to the root scene, and deleteLight /
\* deleteContent leave the key out of the registry and the node out of the scene.
C1_RegistryEntriesAttached ==
    /\ \A i \in 1..Len(lights) :
          /\ getLight(lights[i].val) # NoNode
          /\ getLight(lights[i].val) \in sceneChildren
    /\ \A i \in 1..Len(content) : GroupNode(content[i].val) \in sceneChildren
    /\ lastOp.op = "deleteLight" =>
          /\ ~MapHas(lights, lastOp.key)
          /\ lastOp.node \notin sceneChildren
    /\ lastOp.op = "deleteContent" =>
          /\ ~MapHas(content, lastOp.key)
          /\ lastOp.node \notin sceneChildren

(***************************************************************************)
(* Properties of the constructed-scene registry and the render loop        *)
(***************************************************************************)

\* C2: after any number of animate calls at most one render callback is
\* scheduled for the next frame.
C2_SingleRenderLoop == Len(rafQueue) <= 1

\* the hook events of the last tick: all but the first and the last event
TickHooks == SubSeq(tickLog, 2, Len(tickLog) - 1)

\* the scenes registered when the last tick ran
TickRegistered == {tickSeen.added[k] : k \in Keys} \ {None}

\* the tick starts with the one root render and ends with the one call of the
\* callback given to animate; with no camera nothing runs
TickFrame ==
    IF tickSeen.camera
    THEN /\ Len(tickLog) >= 2
         /\ tickLog[1] = [ev |-> "render", arg |-> "root"]
         /\ tickLog[Len(tickLog)] = [ev |-> "callback", arg |-> tickSeen.pfkt]
         /\ \A i \in 1..Len(TickHooks) : TickHooks[i].ev = "hook"
    ELSE tickLog = <<>>

\* where scene sc was registered first among the entries of the last tick
FirstEntry(sc) ==
    CHOOSE p \in 1..Len(tickSeen.order) :
        /\ tickSeen.added[tickSeen.order[p]] = sc
        /\ \A q \in 1..(p - 1) : tickSeen.added[tickSeen.order[q]] # sc

\* C3 (as claimed): in a tick with a camera the root render comes first, then the
\* animate hook of every registered scene exactly once, in the order in which the
\* scenes were registered, then the caller's callback.
C3_TickOrderOncePerScene ==
    tickSeen # NoTick =>
        /\ TickFrame
        /\ tickSeen.camera =>
              /\ \A i \in 1..Len(TickHooks) : TickHooks[i].arg \in TickRegistered
              /\ \A sc \in TickRegistered :
                    Cardinality({i \in 1..Len(TickHooks) : TickHooks[i].arg = sc}) = 1
              /\ \A i, j \in 1..Len(TickHooks) :
                    i < j => FirstEntry(TickHooks[i].arg) < FirstEntry(TickHooks[j].arg)

\* C3 (amended): in a tick with a camera the root render comes first, then one
\* animate hook per registry entry, that of the entry's scene, in the order in
\* which the keys entered the registry, then the caller's callback; a scene
\* registered under two keys is invoked once for each.
C3_TickOrderOncePerEntry ==
    tickSeen # NoTick =>
        /\ TickFrame
        /\ tickSeen.camera =>
              /\ Len(TickHooks) = Len(tickSeen.order)
              /\ \A i \in 1..Len(TickHooks) :
                    TickHooks[i].arg = tickSeen.added[tickSeen.order[i]]

\* C3 witness: a tick with a camera ran over two entries holding different scenes
C3_Witness ==
    /\ tickSeen.camera
    /\ Len(tickLog) = 4
    /\ tickLog[2].arg # tickLog[3].arg

\* C4: getConstructedScene(k) is absent if k was never added or was deleted since
\* its last add, and otherwise the scene of the latest addConstructedScene(k, _);
\* lastAdded records exactly that, per key, touching no other key.
C4_RegistryIsMap ==
    \A k \in Keys : getConstructedScene(k) = lastAdded[k]

\* C4 witness: both keys held scene s1 at the last resize; since then "a" was
\* deleted and "b" was overwritten with s2
C4_Witness ==
    /\ getConstructedScene("a") = None
    /\ getConstructedScene("b") = "s2"
    /\ lastResize.added = [k \in Keys |-> "s1"]

\* how often the last updateCameraWindowSize invoked the hook of scene sc
HookCount(sc) == Cardinality({i \in 1..Len(hookCalls) : hookCalls[i].scene = sc})

\* C5 (as claimed): a call updateCameraWindowSize(w, h) invokes the hook of every
\* scene registered at the time exactly once, with (w, h), and of no other scene.
C5_HookOncePerScene ==
    lastResize # NoResize =>
        /\ \A i \in 1..Len(hookCalls) : hookCalls[i].size = lastResize.size
        /\ \A sc \in Scenes :
              HookCount(sc) = IF \E k \in Keys : lastResize.added[k] = sc
                              THEN 1 ELSE 0

\* C5 (amended): a call updateCameraWindowSize(w, h) invokes the hook of a scene
\* once for every key it is registered under at the time, with (w, h), and the
\* hook of no scene that is not registered.
C5_HookOncePerEntry ==
    lastResize # NoResize =>
        /\ \A i \in 1..Len(hookCalls) : hookCalls[i].size = lastResize.size
        /\ \A sc \in Scenes :
              HookCount(sc) = Cardinality({k \in Keys : lastResize.added[k] = sc})

\* C5 witness: a call with two different scenes registered, one hook call each
C5_Witness ==
    /\ lastResize # NoResize
    /\ Len(hookCalls) = 2
    /\ hookCalls[1].scene # hookCalls[2].scene

(***************************************************************************)
(* Properties of Light.switch                                              *)
(***************************************************************************)

\* C6: for a light that has a helper, after any sequence of switch calls the
\* helper is visible only if the light is; switch(false, true) leaves the helper
\* invisible and switch(true, false) leaves the light visible, the helper not.
C6_HelperOnlyWithLight ==
    \A l \in LightIds :
        getHelper(l) # NoNode =>
            /\ lightObj[l].helperVisible => lightObj[l].visible
            /\ lastSwitch = [light |-> l, on |-> FALSE, onHelper |-> TRUE] =>
                  ~lightObj[l].helperVisible
            /\ lastSwitch = [light |-> l, on |-> TRUE, onHelper |-> FALSE] =>
                  lightObj[l].visible /\ ~lightObj[l].helperVisible

\* C6 witness: switch(true, false) ran on a light with a helper, which is now
\* visible with its helper invisible (the converse implication does not hold)
C6_Witness ==
    \E l \in LightIds :
        /\ getHelper(l) # NoNode
        /\ lastSwitch = [light |-> l, on |-> TRUE, onHelper |-> FALSE]
        /\ lightObj[l].visible
        /\ ~lightObj[l].helperVisible

(***************************************************************************)
(* Properties of the capability decorators                                 *)
(***************************************************************************)

\* C7: a decorator applied to a scene that already has its capability returns the
\* very same object and creates none, so the capabilities of the scene are those
\* it had after the first decoration.
C7_DecorationIdempotent ==
    lastDecor.had =>
        /\ lastDecor.result = lastDecor.arg
        /\ objects = lastDecor.before

\* C7 witness: with a construct at hand, a decorator ran on a scene that a
\* decorator had built and that had the capability; it returned its argument
C7_Witness ==
    /\ lastDecor.had
    /\ lastDecor.construct
    /\ lastDecor.arg > 2
    /\ lastDecor.result = lastDecor.arg

(***************************************************************************)
(* Properties of the loadable scene units                                  *)
(***************************************************************************)
LoadOrder == <<"Unloaded", "Loading", "Ready">>

\* the load states a unit went through are an initial part of LoadOrder
MovedForward(u) ==
    /\ Len(loadTrace[u]) <= Len(LoadOrder)
    /\ \A i \in 1..Len(loadTrace[u]) : loadTrace[u][i] = LoadOrder[i]
    /\ loadTrace[u][Len(loadTrace[u])] = unit[u].state

\* Loading is entered by the factory, Ready exactly by a load that resolves with
\* content, and an operation that ran left the load state as it was
LoadStateSteps ==
    /\ \A u \in UnitIds : MovedForward(u)
    /\ lastCall.op = "factory" =>
          /\ lastCall.before = "Unloaded"
          /\ unit[lastCall.unit].state = "Loading"
    /\ lastCall.op = "settled" =>
          (unit[lastCall.unit].state = "Ready" <=> lastCall.arg = "content")
    /\ lastCall.op \in UnitOps => unit[lastCall.unit].state = lastCall.before

C9_FirstAssignsLaterTweens ==
    /\ lastSet.impl = "materialSupport" =>
          IF lastSet.first
          THEN /\ actualMaterial.of = lastSet.material
               /\ actualMaterial # Given(lastSet.material)
               /\ contentGroup => \A mesh \in Meshes : groupMaterial[mesh] = actualMaterial
          ELSE /\ groupMaterial = lastSet.meshesBefore
               /\ [from |-> lastSet.currentBefore, to |-> Given(lastSet.material)]
                     \in tweens
    /\ lastSet.impl = "glb" =>
          IF lastSet.first
          THEN \A mesh \in Meshes : glbMaterial[mesh].of = lastSet.material
          ELSE /\ glbMaterial = lastSet.meshesBefore
               /\ \E t \in tweens : t.to = Given(lastSet.material)

(***************************************************************************)
(* Properties of mouse support                                             *)
(***************************************************************************)

\* C10: after onMouseMove, with a camera, on a scene with material support whose
\* base material is set, with visible meshes A and B and the pointer ray hitting A
\* and not B, the material of A is a brightened clone of the base material, not
\* the base material itself, and the material of B is the base material.
C10_HitMeshBrightened ==
    (/\ lastMove.ran
     /\ lastMove.camera
     /\ ishandleMaterialSupport(lastMove.scene)
     /\ lastMove.scene.actualMaterial # NoMaterial
     /\ meshVisible["A"] /\ meshVisible["B"]
     /\ \E i \in 1..Len(lastMove.intersects) : lastMove.intersects[i] = "A"
     /\ \A i \in 1..Len(lastMove.intersects) : lastMove.intersects[i] # "B")
    =>
        /\ meshMaterial["A"].bright
        /\ meshMaterial["A"].of = lastMove.scene.actualMaterial.of
        /\ meshMaterial["A"] # lastMove.scene.actualMaterial
        /\ meshMaterial["B"] = lastMove.scene.actualMaterial

\* the pointer ray of a move crosses no mesh: nothing, or only other objects
NoMeshHit(move) ==
    \A i \in 1..Len(move.intersects) : move.intersects[i] \notin Meshes

\* C11: when mesh A carries the brightened clone of a highlighting move, a
\* following onMouseMove, with a camera, on the scene with material support and
\* its base material, whose pointer ray crosses no mesh, leaves every mesh,
\* A too, with the base material, and none with a brightened clone.
C11_PointerLeaveRestores ==
    [][(/\ lastMove.ran
        /\ meshMaterial["A"].bright
        /\ lastMove' # lastMove
        /\ lastMove'.camera
        /\ NoMeshHit(lastMove')
        /\ ishandleMaterialSupport(lastMove'.scene)
        /\ lastMove'.scene.actualMaterial # NoMaterial)
       => \A mesh \in Meshes :
             meshMaterial'[mesh] = lastMove'.scene.actualMaterial]_vars

(***************************************************************************)
(* Properties of the orbit controls                                        *)
(***************************************************************************)

\* the distance between camera and target is within the limits of the controls
WithinLimits(view) ==
    /\ Distance(view.position, view.target) >= orbit.minDistance
    /\ Distance(view.position, view.target) <= orbit.maxDistance

SameRelevantFields(kind, a, b) ==
    /\ a.color = b.color
    /\ a.intensity = b.intensity
    /\ kind \in PositionKinds => a.position = b.position
    /\ kind = "Hemisphere" => a.skyColor = b.skyColor /\ a.groundColor = b.groundColor
    /\ kind = "RectArea" => a.width = b.width /\ a.height = b.height

\* getConfig() was called on a Light just constructed, of one of the six kinds
FreshGetConfig ==
    /\ lastLight.op = "getConfig"
    /\ lastLight.prevOp = "new"
    /\ given.type \in LightKinds

\* new Light(getConfig()) was built from a Light just constructed
FreshReconstruct ==
    /\ lastLight.op = "reconstruct"
    /\ lastLight.prevOp = "new"
    /\ given.type \in LightKinds

\* a config that names everything its kind reads, with 24-bit colours, and,
\* for a Hemisphere light, the sky colour as its colour
Canonical(config) ==
    /\ config.color < ColorRange
    /\ config.type = "Hemisphere" =>
          /\ config.skyColor = <<config.color>>
          /\ config.groundColor # <<>>
          /\ config.groundColor[1] < ColorRange
    /\ config.type = "RectArea" => config.width # <<>> /\ config.height # <<>>

\* C13 as stated: for every light kind and every config the schema accepts,
\* getConfig() on new Light(c) returns a config whose fields relevant to the
\* kind equal those of c, and new Light(getConfig()) is a light equivalent to
\* the original.
C13_RoundTripEveryConfig ==
    /\ FreshGetConfig => SameRelevantFields(given.type, lightInst.config, given)
    /\ FreshReconstruct => lightInst.light = lastLight.before

\* C13 amended: new Light(getConfig()) is equivalent to the original for every
\* config the schema accepts; the fields getConfig() returns equal those of c
\* when c is canonical: 24-bit colours, the optional fields of its kind present,
\* and for a Hemisphere light color equal to skyColor.
C13_RoundTripCanonical ==
    /\ (FreshGetConfig /\ Canonical(given)) =>
          SameRelevantFields(given.type, lightInst.config, given)
    /\ FreshReconstruct => lightInst.light = lastLight.before

\* C13 witness: getConfig() has run on a new canonical Hemisphere light whose
\* ground colour differs from its sky colour.
C13_Witness ==
    /\ FreshGetConfig
    /\ Canonical(given)
    /\ given.type = "Hemisphere"
    /\ given.groundColor # given.skyColor
    /\ lightInst.config.groundColor = given.groundColor

\* getConfig() was called right after the setter op
AfterSetter(op) == lastLight.op = "getConfig" /\ lastLight.prevOp = op

C15_SettersNoOpWhereNotApplicable ==
    LET before == lastLight.before
        unchanged == lightInst.light = before
    IN  /\ (lastLight.op \in {"setSkyColor", "setGroundColor"}
              /\ before.kind # "Hemisphere") => unchanged
        /\ (lastLight.op = "setNewRectAreaLightSize"
              /\ before.kind # "RectArea") => unchanged
        /\ (lastLight.op = "setLightPosition"
              /\ before.kind \notin PositionKinds) => unchanged
        /\ (lastLight.op \in {"setLightColor", "setLightIntensity"}
              /\ before.kind \notin LightKinds) => unchanged

(***************************************************************************)
(* Properties of the Camera                                                *)
(***************************************************************************)
\* C16: constructing a Camera, or calling createCamera, with width <= 0 or
\* height <= 0 throws, and leaves neither a Camera nor a camera object.
C16_InvalidSizeThrows ==
    (lastCamera.op \in {"new", "createCamera"}
        /\ (lastCamera.width <= 0 \/ lastCamera.height <= 0)) =>
            /\ lastCamera.threw
            /\ ~cameraInst.made
            /\ cameraInst.camera = NoCamera

\* C16 witness: new Camera with a perspective config of width 0 has thrown.
C16_Witness ==
    /\ lastCamera.op = "new"
    /\ lastCamera.type = "perspective"
    /\ lastCamera.width = 0
    /\ lastCamera.height > 0
    /\ lastCamera.threw
    /\ ~cameraInst.made

\* C17: the aspect of a perspective camera built from a valid config, by new
\* Camera or by createCamera, is width / height after construction, and
\* newWidth / newHeight of the most recent updateCameraWindowSize call after
\* any sequence of them.
C17_AspectIsWidthOverHeight ==
    cameraInst.camera.kind = "perspective" =>
        /\ cameraInst.camera.aspect[2] > 0
        /\ cameraInst.camera.aspect[1] * lastCamera.height
              = cameraInst.camera.aspect[2] * lastCamera.width

\* C17 witness: a perspective camera built 3 by 2 has been resized to a window
\* of another proportion, 1 by 3.
C17_Witness ==
    /\ cameraInst.made
    /\ cameraInst.camera.kind = "perspective"
    /\ lastCamera.op = "updateCameraWindowSize"
    /\ lastCamera.width = 1
    /\ lastCamera.height = 3
    /\ cameraInst.camera.aspect = <<1, 3>>

C19_ExactlyOneCurrentGrid ==
    /\ Cardinality(groundScene) <= 1
    /\ ground.gridHelper.gen > 0 => groundScene = {ground.gridHelper.gen}
    /\ lastGround.op = "reCalculateDimensions" =>
          /\ ground.gridHelper.gen \notin lastGround.sceneBefore
          /\ lastGround.gridBefore \notin groundScene
          /\ ground.gridHelper.sizeX >= ExtentX(lastGround.box)
          /\ ground.gridHelper.sizeZ >= ExtentZ(lastGround.box)
          /\ ground.gridHelper.sizeX < Max(ExtentX(lastGround.box),
                                           ExtentZ(lastGround.box)) + 4
          /\ ground.gridHelper.sizeZ < Max(ExtentX(lastGround.box),
                                           ExtentZ(lastGround.box)) + 4

\* C19 witness: a second reCalculateDimensions call, with a box that is longer
\* in z than in x and whose extents are not whole numbers, has replaced the
\* grid of the first call.
C19_Witness ==
    /\ lastGround.op = "reCalculateDimensions"
    /\ lastGround.gridBefore = 1
    /\ lastGround.sceneBefore = {1}
    /\ groundScene = {2}
    /\ ExtentX(lastGround.box) = 1
    /\ ExtentZ(lastGround.box) = 5
    /\ ground.gridHelper.sizeZ >= 6

(***************************************************************************)
(* Properties of the card deck                                             *)
(***************************************************************************)
\* how often card c occurs in the sequence d
Occurrences(d, c) == Cardinality({i \in 1..Len(d) : d[i] = c})

\* C20: for every deck and either algorithm, shuffle(deck) is a permutation:
\* the sequence it returns has the length of the deck before the call and
\* holds every card as often as the deck did; so does the sequence the
\* selected algorithm itself returns.
C20_ShuffleIsPermutation ==
    lastDeck.op = "shuffle" =>
        /\ Len(lastDeck.returned) = Len(lastDeck.before)
        /\ Len(lastDeck.inner) = Len(lastDeck.before)
        /\ \A c \in Cards :
              /\ Occurrences(lastDeck.returned, c) = Occurrences(lastDeck.before, c)
              /\ Occurrences(lastDeck.inner, c) = Occurrences(lastDeck.before, c)

\* C20 witness: a fisher-yates shuffle has returned a deck of three cards, two
\* of them alike, in another order than it was given.
C20_Witness ==
    /\ lastDeck.op = "shuffle"
    /\ lastDeck.algorithm = "fisher-yates"
    /\ Len(lastDeck.before) = 3
    /\ Occurrences(lastDeck.before, Card("Spades", "King")) = 2
    /\ lastDeck.returned # lastDeck.before
    /\ deck = lastDeck.returned


\* C21: drawCard on a deck of n >= 1 cards returns the last card and leaves
\* the first n-1 cards in their order (a deck of one card becomes empty);
\* drawCard on an empty deck throws and leaves the deck empty.
C21_DrawCardPopsOrThrows ==
    lastDeck.op = "drawCard" =>
        LET n == Len(lastDeck.before)
        IN  IF n = 0
            THEN lastDeck.threw /\ lastDeck.returned = <<>> /\ deck = <<>>
            ELSE /\ ~lastDeck.threw
                 /\ lastDeck.returned = <<lastDeck.before[n]>>
                 /\ deck = SubSeq(lastDeck.before, 1, n - 1)

\* C21 witness: a draw from a deck that earlier draws had emptied has thrown
\* and the deck is still empty
C21_Witness ==
    /\ lastDeck.op = "drawCard"
    /\ lastDeck.before = <<>>
    /\ lastDeck.threw
    /\ deck = <<>>

\* C22: every createDeck() returns 52 cards that hold each of the 4 x 13
\* pairs of a suit and a value exactly once, whatever was drawn from or
\* shuffled in the deck created before.
C22_CreateDeckIsFull ==
    lastDeck.op = "createDeck" =>
        /\ deck = lastDeck.returned
        /\ Len(lastDeck.returned) = 52
        /\ \A i \in 1..4, j \in 1..13 :
              Occurrences(lastDeck.returned, Card(suits[i], values[j])) = 1

\* C22 witness: createDeck has returned while the caller held an earlier
\* deck that had been shuffled out of order and drawn from
C22_Witness ==
    /\ lastDeck.op = "createDeck"
    /\ Len(lastDeck.before) = 51
    /\ lastDeck.before # SubSeq(FullDeck, 1, 51)
    /\ Len(deck) = 52


\* C29: shuffle(deck) returns the ordering the selected algorithm produced:
\* what it returns is the sequence the algorithm function returned, for
\* fisher-yates and for riffle alike.
C29_ShuffleReturnsAlgorithmOutput ==
    lastDeck.op = "shuffle" => lastDeck.returned = lastDeck.inner


\* C30: with fair draws riffleShuffle terminates for every deck, and what it
\* then returns holds every card of its input as often as the input does.
C30_RiffleTerminatesWithPermutation ==
    (riffle.pc = "loop") ~>
        (/\ riffle.pc = "done"
         /\ Len(riffle.shuffled) = Len(riffle.input)
         /\ \A c \in Cards :
               Occurrences(riffle.shuffled, c) = Occurrences(riffle.input, c))

\* C30 witness: riffleShuffle has returned three cards in another order than
\* it was given them
C30_Witness ==
    /\ riffle.pc = "done"
    /\ Len(riffle.input) = 3
    /\ Len(riffle.shuffled) = 3
    /\ riffle.shuffled # riffle.input


(***************************************************************************)
(* Properties of the registries under re-registration                      *)
(***************************************************************************)
\* the keys under which registry m holds value v
KeysOf(m, v) == {m[i].key : i \in {j \in 1..Len(m) : m[j].val = v}}

\* a step that registers another value under a present key replaces the entry
\* and takes nothing off the root scene
OverwriteKeepsOldNode ==
    /\ \A k \in LightKeys, l \in LightIds :
         (addLight(k, l) /\ MapHas(lights, k) /\ MapGet(lights, k) # l) =>
             LET old == MapGet(lights, k)
             IN  /\ MapGet(lights', k) = l
                 /\ Len(lights') = Len(lights)
                 /\ sceneChildren \subseteq sceneChildren'
                 /\ (getLight(old) \in sceneChildren =>
                        getLight(old) \in sceneChildren')
                 /\ (KeysOf(lights, old) = {k} => KeysOf(lights', old) = {})
    /\ \A k \in Keys, g \in Groups :
         (addContent(k, g) /\ MapHas(content, k) /\ MapGet(content, k) # g) =>
             LET old == MapGet(content, k)
             IN  /\ MapGet(content', k) = g
                 /\ Len(content') = Len(content)
                 /\ sceneChildren \subseteq sceneChildren'
                 /\ (GroupNode(old) \in sceneChildren =>
                        GroupNode(old) \in sceneChildren')
                 /\ (KeysOf(content, old) = {k} => KeysOf(content', old) = {})
    /\ \A k \in Keys, sc \in Scenes :
         (addConstructedScene(k, sc) /\ MapHas(constructedScenes, k)) =>
             /\ MapGet(constructedScenes', k) = sc
             /\ Len(constructedScenes') = Len(constructedScenes)

\* C23: addLight, addContent and addConstructedScene on a key that is
\* present replace the entry (get returns the new value, the key has one
\* entry) and remove nothing from the root scene: the node of the light or
\* content registered before stays attached, and if k was its only key no key
\* refers to it any more.
C23_OverwriteKeepsOldNode == [][OverwriteKeepsOldNode]_vars

\* C23 witness: a light and a content group that no key of their registry
\* refers to are attached to the root scene, and a key of the constructed
\* scenes holds another scene than the one added under it first
C23_Witness ==
    /\ \E l \in LightIds :
          getLight(l) \in sceneChildren /\ KeysOf(lights, l) = {}
    /\ \E g \in Groups :
          GroupNode(g) \in sceneChildren /\ KeysOf(content, g) = {}
    /\ lastOp.op = "addContent"
    /\ MapGet(constructedScenes, "a") = "s2"
    /\ Len(constructedScenes) = 1


\* the underlying lights Light l has had or may come to have
LightNodes(l) == {createLight(l, "Ambient", gen) : gen \in 0..MaxNewLights}

\* deleteLight on the only key of a registered light for which addLight attached
\* a node takes the key away and leaves no underlying light of that Light
\* attached
DeleteDetachesLight ==
    \A k \in LightKeys :
        (deleteLight(k) /\ MapHas(lights, k)
            /\ KeysOf(lights, MapGet(lights, k)) = {k}
            /\ sceneChildren \cap LightNodes(MapGet(lights, k)) # {}) =>
                /\ ~MapHas(lights', k)
                /\ sceneChildren' \cap LightNodes(MapGet(lights, k)) = {}

\* C26: after addLight(k, L) and any switch, setter or setNewLight on L,
\* deleteLight(k) leaves the key absent and none of the nodes addLight
\* attached for L attached to the root scene.
C26_DeleteLightDetachesWhatAddLightAttached == [][DeleteDetachesLight]_vars


(***************************************************************************)
(* Properties of calls made while a load is in flight                      *)
(***************************************************************************)
\* a load that settles leaves the unit as a unit nobody called setMaterial on:
\* no current material is stored and no mesh carries a material handed over
LoadSettlesUntouched ==
    /\ (unit["cube"].pending /\ ~unit'["cube"].pending) =>
          /\ actualMaterial' = NoMaterial
          /\ \A mesh \in Meshes : groupMaterial'[mesh].of \notin Materials
    /\ (unit["glb"].pending /\ ~unit'["glb"].pending) =>
          \A mesh \in Meshes : glbMaterial'[mesh].of \notin Materials

\* C24: a setMaterial(m) call made while the load of the unit is in flight
\* has no effect: when the load resolves no mesh carries m and no current
\* material is stored, so that the next setMaterial is a first call.
C24_SetMaterialInFlightHasNoEffect == [][LoadSettlesUntouched]_vars


\* whether the content of unit u is shown: it is a child of the unit's group
\* and comes visible from the loader, so it is shown when the group is
ContentVisible(u) == unit[u].visible

\* a visible(vis) call sets what is shown to vis, and no other step of a unit
\* or of its load changes it
VisibleIsLastFlag ==
    \A u \in UnitIds :
        /\ \A vis \in BOOLEAN :
              (unit[u].handle /\ unitVisible(u, vis)) => ContentVisible(u)' = vis
        /\ (~ \E vis \in BOOLEAN : unitVisible(u, vis)) =>
              ContentVisible(u)' = ContentVisible(u)

\* C25: however visible(flag) calls interleave with the load of a unit, what
\* is shown of the unit's content once it is Ready is the flag of the last
\* visible call: a call made while Loading holds when the load completes, and
\* the completion of the load does not change the flag.
C25_VisibleFollowsLastCall == [][VisibleIsLastFlag]_vars

\* C25 witness: the rotation cube became Ready by the step just taken and is
\* hidden, by a visible(false) made while its load was in flight
C25_Witness ==
    /\ unit["cube"].state = "Ready"
    /\ lastCall.unit = "cube" /\ lastCall.op = "settled"
    /\ lastCall.before = "Loading"
    /\ ~ContentVisible("cube")


\* how often container u is among the children of the root scene
Attached(u) == Cardinality({i \in 1..Len(glbRoot) : glbRoot[i] = u})

\* C27: every registered glb scene unit whose load resolved with content is,
\* once a tick has run its hook, attached to the root scene exactly once and
\* no later tick attaches it again; so for two units of the same asset path.
C27_EveryUnitAttachedOnce ==
    \A u \in GlbUnitIds :
        (glbUnits[u].content /\ glbUnits[u].hooked) =>
            Attached(u) = 1 /\ glbUnits[u].adds = 1


(***************************************************************************)
(* Properties of the render loop                                           *)
(***************************************************************************)
\* no step takes a requested frame away without requesting one, and a tick
\* without a camera renders nothing and calls no hook
KeepsRequested ==
    /\ Len(rafQueue') >= Len(rafQueue)
    /\ (frames' # frames /\ ~cameraDefined) => (tickLog' = <<>> /\ ~tickThrew')

\* C28: once animate has been called the render loop never stops: every tick
\* requests the following frame before its work, so a requested frame is never
\* lost and ticks keep coming, also when the camera is undefined (the tick
\* renders nothing and calls no hook) and when a hook or the callback throws.
C28_LoopNeverStops ==
    /\ [][KeepsRequested]_vars
    /\ \A n \in 0..1 : (rafQueue # <<>>) ~> (frames = n /\ rafQueue # <<>>)

\* C28 witness: an animation frame whose second scene hook threw has run, the
\* callback was not reached, and the next frame is requested
C28_Witness ==
    /\ tickThrew
    /\ Len(tickLog) = 3
    /\ tickLog[3].ev = "hook"
    /\ frames = 0
    /\ rafQueue # <<>>

====
